---- MODULE Spec2Model ----
(***************************************************************************)
(* Steno real-time transcription core: verification model.                 *)
(*                                                                         *)
(* Components, each with its own specification over the shared variables:  *)
(*   SpecSeg    VoiceActivityDetector + SmartAudioBuffer (audio_processing)*)
(*              driven by OptimalRealtimeProcessor::process_audio_chunk    *)
(*   SpecRM     ResultManager / DeduplicationEngine / SegmentOrganizer     *)
(*   SpecDedup  DeduplicationEngine::merge_similar_results as a function   *)
(*   SpecSpk    RealtimeSpeakerDiarization::identify_speaker               *)
(*   SpecCmd    the start / pause / resume / stop commands of a session    *)
(*   SpecWork   the threads of one session: LayeredProcessor workers, main *)
(*              and stats threads; SpecWorkFair under a fair scheduler     *)
(*   SpecOrg    SegmentOrganizer::add_segment / update_segment             *)
(*   SpecBuf    ConversationBuffer of the ContextAwareProcessor            *)
(*   SpecCap    raw audio between the capture callback and recognition     *)
(*   SpecTimeout the segmenter with silences of exactly the timeout        *)
(*   SpecDup    DeduplicationEngine::is_duplicate as a function            *)
(*   SpecSplit  AccurateProcessor::transcribe_accurate on long audio       *)
(*   SpecCtx    ConversationBuffer::get_recent_context as a function       *)
(*   SpecVoices identify_speaker on up to six different voices             *)
(*   SpecLong   LongAudioProcessor: one task, its workers and listener     *)
(*                                                                         *)
(* Time is in milliseconds.  f32 quantities are exact rationals.           *)
(***************************************************************************)
EXTENDS Integers, Sequences, FiniteSets, TLC

VARIABLES
    \* ---- audio_processing.rs: VoiceActivityDetector
    history_window,      \* VecDeque<f32>, scores in tenths
    speech_probability,  \* <<sum, len>> of history_window (0/1 at start)
    \* ---- audio_processing.rs: SmartAudioBuffer
    current_segment,     \* Option<SpeechSegment>
    silence_duration,    \* Duration (ms)
    last_speech_time,    \* Option<Instant>
    \* ---- environment and observation of the segmenter
    now,                 \* the monotonic clock (Instant::now), ms
    n_chunks,            \* number of add_chunk calls so far (frame ids)
    n_segments,          \* number of SpeechSegment::new calls so far
    emitted,             \* every segment returned so far, in order
    ever_speech,         \* some frame was classified as speech
    task_queue,          \* LayeredProcessor task channel (tasks sent)
    \* ---- result_manager.rs: ResultManager
    pending_results,     \* HashMap<String, TranscriptResult>
    segments,            \* SegmentOrganizer.segments (VecDeque)
    \* ---- environment and observation of the result manager
    rm_now,              \* SystemTime::now, ms
    fast_seen,           \* per speech segment: key of its processed fast result
    acc_seen,            \* speech segments whose accurate result was processed
    last_call,           \* what the last process_result call did
    n_evicted,           \* number of pop_front evictions so far
    \* ---- merge_similar_results applied as a function
    dd_inputs,           \* the results given to the first merge
    dd_stage,            \* "idle", "input", "merged", "again"
    dd_results,          \* the outcome of the first merge
    dd_first,            \* the segments committed from the first merge
    dd_second,           \* the segments committed from merging it again
    \* ---- realtime_speaker_diarization.rs: RealtimeSpeakerDiarization
    speaker_profiles,    \* HashMap<String, SpeakerProfile>
    current_speaker,     \* Option<String>
    feature_history,     \* Vec<VoiceFeatures>
    \* ---- observation of the diarizer
    spk_calls,           \* number of identify_speaker calls so far
    spk_prev,            \* the call before the last one
    spk_last,            \* the last call: features, label, profile count
    \* ---- optimal_realtime_processor.rs: OptimalRealtimeState and commands
    processor_state,     \* Option<OptimalRealtimeProcessor>, a session id
    sessions,            \* every OptimalRealtimeProcessor built so far
    last_command,        \* the last command and what it returned
    \* ---- one session's threads (layered_processor.rs, optimal_realtime_
    \*      processor.rs)
    ctl,                 \* "created", "recording", "stopped"
    is_running,          \* LayeredProcessor.is_running
    is_recording,        \* OptimalRealtimeProcessor.is_recording
    worker_pc,           \* per worker: "loop", "engine", "exited"
    worker_task,         \* per worker: the task it took from the channel
    task_receiver,       \* holder of the Mutex around the task receiver
    task_channel,        \* tasks sent and not yet received
    result_channel,      \* results sent and not yet received
    engine,              \* the threads inside whisper_full
    main_pc,             \* "none", "loop", "exited"
    stats_pc,            \* "none", "loop", "exited"
    legacy_pc,           \* the other recognizer: "idle", "engine"
    open_segment,        \* SmartAudioBuffer.current_segment is Some
    n_completed,         \* segments add_chunk has returned so far
    pending_map,         \* ResultManager.pending_results: segment, age
    committed,           \* committed segments: <<segment, is_temporary>>
    \* ---- observation of the threads
    submit_log,          \* what the last process_segment sent, None before
    accurate_failed,     \* segments whose accurate call returned no result
    fast_done,           \* segments whose fast result reached the manager
    finalize_log,        \* what finalize_recording did, None before it
    \* ---- SegmentOrganizer driven by commits and manual corrections
    org_segments,        \* SegmentOrganizer.segments
    org_parts,           \* per stored segment: the windows of the results in it
    org_now,             \* timestamp of the last committed result (ms)
    org_last,            \* the last operation and what it returned
    \* ---- ConversationBuffer (context_processor.rs)
    buf_segments,        \* ConversationBuffer.segments
    buf_clock,           \* SystemTime::now(), ms since the epoch
    buf_last,            \* the last add_segment: its cutoff and what it found
    \* ---- raw audio between capture and recognition (realtime_audio.rs,
    \*      realtime_audio_full.rs); a run of samples is [first, len]
    audio_buffer,        \* realtime_audio.rs: RealtimeAudioCapture.audio_buffer
    cap_captured,        \* realtime_audio.rs: samples captured so far
    cap_paused,          \* realtime_audio.rs: is_paused
    audio_channel,       \* realtime_audio_full.rs: chunks sent, not received
    continuous_buffer,   \* realtime_audio_full.rs: AudioProcessor.continuous_buffer
    full_captured,       \* realtime_audio_full.rs: samples captured so far
    audio_data,          \* realtime_audio_full.rs: the recording kept for saving
    n_callbacks,         \* capture callbacks so far
    \* ---- the last application of a function to its inputs
    dup_call,            \* DeduplicationEngine::is_duplicate
    split_call,          \* AccurateProcessor::transcribe_accurate
    ctx_call,            \* ConversationBuffer::get_recent_context
    \* ---- long_audio.rs: LongAudioProcessor
    la_task,             \* the task in `tasks`, with its segments
    la_channel,          \* the messages between segment_tx and segment_rx
    la_workers,          \* WorkerState of every worker
    la_listeners,        \* result listeners running
    la_starts            \* start_task calls so far

seg_vars == <<history_window, speech_probability, current_segment,
              silence_duration, last_speech_time, now, n_chunks,
              n_segments, emitted, ever_speech, task_queue>>

rm_vars == <<pending_results, segments, rm_now, fast_seen, acc_seen,
             last_call, n_evicted>>

dd_vars == <<dd_inputs, dd_stage, dd_results, dd_first, dd_second>>

spk_vars == <<speaker_profiles, current_speaker, feature_history, spk_calls,
              spk_prev, spk_last>>

cmd_vars == <<processor_state, sessions, last_command>>

work_vars == <<ctl, is_running, is_recording, worker_pc, worker_task,
               task_receiver, task_channel, result_channel, engine, main_pc,
               stats_pc, legacy_pc, open_segment, n_completed, pending_map,
               committed, submit_log, accurate_failed, fast_done,
               finalize_log>>

org_vars == <<org_segments, org_parts, org_now, org_last>>

\* the components of the session layer
buf_vars == <<buf_segments, buf_clock, buf_last>>

cap_vars == <<audio_buffer, cap_captured, cap_paused, audio_channel,
              continuous_buffer, full_captured, audio_data, n_callbacks>>

fn_vars == <<dup_call, split_call, ctx_call>>

long_vars == <<la_task, la_channel, la_workers, la_listeners, la_starts>>

ext_vars == <<cmd_vars, work_vars, org_vars, buf_vars, cap_vars, fn_vars,
              long_vars>>

\* the components below the session layer
core_vars == <<seg_vars, rm_vars, dd_vars, spk_vars>>

vars == <<core_vars, ext_vars>>

(***************************************************************************)
(* Option values                                                           *)
(***************************************************************************)
None == [some |-> FALSE]
Some(x) == [some |-> TRUE, val |-> x]

SeqSum(s) ==
    LET RECURSIVE Go(_)
        Go(i) == IF i = 0 THEN 0 ELSE s[i] + Go(i - 1)
    IN Go(Len(s))

(***************************************************************************)
(* Bounds of the segmenter model                                           *)
(***************************************************************************)
\* number of add_chunk calls explored
MaxChunks == 3
\* wall-clock time between two add_chunk calls (ms)
ShortGap == 450
LongGap == 6000
Gaps == {ShortGap, LongGap}
\* time that may pass between the first Instant::now() of a call and the
\* later ones of the same call (ms)
CallLag == 400
Lags == {0, CallLag}

(***************************************************************************)
(* Program constants of audio_processing.rs                                *)
(***************************************************************************)
VadWindow == 10
SpeechThresholdTenths == 3
EnergyWeightTenths == 7
ZcrWeightTenths == 3
MinSegmentDurationMs == 500
MaxSegmentDurationMs == 10000
SilenceTimeoutMs == 800
\* cpal buffer size of the capture stream: samples per chunk
ChunkSamples == 512
SampleRate == 16000
FastMaxSeconds == 2

(***************************************************************************)
(* VoiceActivityDetector::is_speech.  A chunk is given by its two feature  *)
(* tests: energy > energy_threshold, zcr > zero_crossing_threshold.        *)
(***************************************************************************)
Chunks == [energy : BOOLEAN, zcr : BOOLEAN]

FrameScore(chunk) ==
    (IF chunk.energy THEN EnergyWeightTenths ELSE 0)
    + (IF chunk.zcr THEN ZcrWeightTenths ELSE 0)

PushHistory(hist, chunk) ==
    LET h == Append(hist, FrameScore(chunk))
    IN IF Len(h) > VadWindow THEN Tail(h) ELSE h

\* speech_probability > 0.3, with speech_probability = sum / len
IsSpeech(hist, chunk) ==
    LET h == PushHistory(hist, chunk)
    IN SeqSum(h) > SpeechThresholdTenths * Len(h)

(***************************************************************************)
(* SpeechSegment                                                           *)
(***************************************************************************)
\* SpeechSegment::new(chunk) at time t; id is the identity of the object
SpeechSegmentNew(id, frame, t) ==
    [id |-> id, audio_data |-> <<frame>>, start_time |-> t,
     end_time |-> None, is_complete |-> FALSE]

AddAudio(seg, frame) ==
    [seg EXCEPT !.audio_data = Append(@, frame)]

Complete(seg, t) ==
    [seg EXCEPT !.end_time = Some(t), !.is_complete = TRUE]

\* SpeechSegment::duration read at time t
Duration(seg, t) ==
    IF seg.end_time.some THEN seg.end_time.val - seg.start_time
    ELSE t - seg.start_time

LengthSamples(seg) == Len(seg.audio_data) * ChunkSamples

(***************************************************************************)
(* SmartAudioBuffer::add_chunk                                             *)
(***************************************************************************)
Returned(seg, how) == [seg |-> seg, closed_by |-> how]

\* A split that returns the finished copy but keeps the open segment.
SpeechBranchKeepsSegment(cur, frame, t, new_id) ==
    IF cur.some
    THEN LET segment == AddAudio(cur.val, frame)
         IN IF Duration(segment, t) > MaxSegmentDurationMs
            THEN [current |-> Some(segment),
                  completed |-> <<Returned(Complete(segment, t), "split")>>]
            ELSE [current |-> Some(segment), completed |-> <<>>]
    ELSE [current |-> Some(SpeechSegmentNew(new_id, frame, t)),
          completed |-> <<>>]

\* is_speech branch: the next current_segment and the segments completed.
\* t is the clock read by duration(), complete() and SpeechSegment::new.
SpeechBranch(cur, frame, t, new_id) ==
    IF cur.some
    THEN LET segment == AddAudio(cur.val, frame)
         IN IF Duration(segment, t) > MaxSegmentDurationMs
            THEN [current |-> Some(SpeechSegmentNew(new_id, frame, t)),
                  completed |-> <<Returned(Complete(segment, t), "split")>>]
            ELSE [current |-> Some(segment), completed |-> <<>>]
    ELSE [current |-> Some(SpeechSegmentNew(new_id, frame, t)),
          completed |-> <<>>]

\* A silence branch that opens a segment when none is open.
SilenceBranchOpens(cur, frame, silence, t) ==
    IF silence > SilenceTimeoutMs
    THEN IF cur.some /\ Duration(cur.val, t) >= MinSegmentDurationMs
         THEN [current |-> None,
               completed |-> <<Returned(Complete(cur.val, t), "silence")>>]
         ELSE [current |-> None, completed |-> <<>>]
    ELSE IF cur.some
         THEN [current |-> Some(AddAudio(cur.val, frame)), completed |-> <<>>]
         ELSE [current |-> Some(SpeechSegmentNew(frame, frame, t)),
               completed |-> <<>>]

\* A silence branch that returns the segment whatever its duration.
SilenceBranchEmitsShort(cur, frame, silence, t) ==
    IF silence > SilenceTimeoutMs
    THEN IF cur.some
         THEN [current |-> None,
               completed |-> <<Returned(Complete(cur.val, t), "silence")>>]
         ELSE [current |-> None, completed |-> <<>>]
    ELSE IF cur.some
         THEN [current |-> Some(AddAudio(cur.val, frame)), completed |-> <<>>]
         ELSE [current |-> None, completed |-> <<>>]

\* silence branch, silence being the updated silence_duration
SilenceBranch(cur, frame, silence, t) ==
    IF silence > SilenceTimeoutMs
    THEN IF cur.some /\ Duration(cur.val, t) >= MinSegmentDurationMs
         THEN [current |-> None,
               completed |-> <<Returned(Complete(cur.val, t), "silence")>>]
         ELSE [current |-> None, completed |-> <<>>]
    ELSE IF cur.some
         THEN [current |-> Some(AddAudio(cur.val, frame)), completed |-> <<>>]
         ELSE [current |-> None, completed |-> <<>>]

SilenceDuration(last_speech, old, t) ==
    IF last_speech.some THEN t - last_speech.val ELSE old

\* UnifiedProcessor::process_segment, submission part: the tasks sent for
\* one completed segment
LengthSecondsAtMost(seg, secs) == LengthSamples(seg) <= secs * SampleRate

SubmittedTasks(seg) ==
    (IF LengthSecondsAtMost(seg, FastMaxSeconds)
     THEN <<[segment |-> seg, channel |-> "Fast", priority |-> 0]>>
     ELSE <<>>)
    \o <<[segment |-> seg, channel |-> "Accurate", priority |-> 100]>>

TasksFor(completed) ==
    LET RECURSIVE Go(_)
        Go(i) == IF i = 0 THEN <<>>
                 ELSE Go(i - 1) \o SubmittedTasks(completed[i].seg)
    IN Go(Len(completed))

Stamp(completed, call) ==
    [i \in 1..Len(completed) |->
        [seg |-> completed[i].seg, closed_by |-> completed[i].closed_by,
         call |-> call]]

\* OptimalRealtimeProcessor::process_audio_chunk: add_chunk on one chunk
\* arriving dt after the previous call, then one submission per completed
\* segment.
ProcessAudioChunk(chunk, dt, lag) ==
    /\ n_chunks < MaxChunks
    /\ LET t_in == now + dt
           t == t_in + lag
           frame == n_chunks + 1
           speech == IsSpeech(history_window, chunk)
           hist == PushHistory(history_window, chunk)
           silence == SilenceDuration(last_speech_time, silence_duration, t_in)
           out == IF speech
                  THEN SpeechBranch(current_segment, frame, t, n_segments + 1)
                  ELSE SilenceBranch(current_segment, frame, silence, t)
           opened == out.current.some /\ out.current.val.id = n_segments + 1
       IN /\ history_window' = hist
          /\ speech_probability' = <<SeqSum(hist), Len(hist)>>
          /\ last_speech_time' = IF speech THEN Some(t_in) ELSE last_speech_time
          /\ silence_duration' = IF speech THEN 0 ELSE silence
          /\ current_segment' = out.current
          /\ n_segments' = IF opened THEN n_segments + 1 ELSE n_segments
          /\ emitted' = emitted \o Stamp(out.completed, frame)
          /\ task_queue' = task_queue \o TasksFor(out.completed)
          /\ ever_speech' = (ever_speech \/ speech)
          /\ n_chunks' = frame
          /\ now' = t
          /\ UNCHANGED <<rm_vars, dd_vars, spk_vars, ext_vars>>

\* SmartAudioBuffer::force_complete_current, as called on stop by
\* finalize_recording (which only logs the segment)
ForceCompleteKeepsOpen(cur, t) ==
    IF cur.some
    THEN [current |-> cur,
          completed |-> <<Returned(Complete(cur.val, t), "force")>>]
    ELSE [current |-> None, completed |-> <<>>]

ForceComplete(cur, t) ==
    IF cur.some
    THEN [current |-> None,
          completed |-> <<Returned(Complete(cur.val, t), "force")>>]
    ELSE [current |-> None, completed |-> <<>>]

ForceCompleteCurrent(dt) ==
    /\ n_chunks > 0
    /\ Len(emitted) < MaxChunks
    /\ LET t == now + dt
           out == ForceComplete(current_segment, t)
       IN /\ current_segment' = out.current
          /\ emitted' = emitted \o Stamp(out.completed, 0)
          /\ now' = IF current_segment.some THEN t ELSE now
          /\ UNCHANGED <<history_window, speech_probability, silence_duration,
                         last_speech_time, n_chunks, n_segments, ever_speech,
                         task_queue, rm_vars, dd_vars, spk_vars,
                         ext_vars>>

NextSeg ==
    \/ \E chunk \in Chunks, dt \in Gaps, lag \in Lags :
          ProcessAudioChunk(chunk, dt, lag)
    \/ \E dt \in Gaps : ForceCompleteCurrent(dt)

\* the segmenter on chunks that arrive around the silence timeout
TimeoutGaps == {ShortGap, SilenceTimeoutMs}

NextTimeout ==
    \E chunk \in Chunks, dt \in TimeoutGaps, lag \in Lags :
        ProcessAudioChunk(chunk, dt, lag)


(***************************************************************************)
(* Claims about the segmenter (checked under SpecSeg)                      *)
(***************************************************************************)
Frames(seg) == {seg.audio_data[k] : k \in 1..Len(seg.audio_data)}

\* C1: every segment returned by add_chunk or force_complete_current is
\* complete and has an end time, is returned by exactly one call, and is
\* not the segment the segmenter still holds.
C1_HandedOverOnceAndComplete ==
    /\ \A i \in 1..Len(emitted) :
          /\ emitted[i].seg.is_complete
          /\ emitted[i].seg.end_time.some
    /\ \A i, j \in 1..Len(emitted) :
          i # j => emitted[i].seg.id # emitted[j].seg.id
    /\ current_segment.some =>
          \A i \in 1..Len(emitted) :
             emitted[i].seg.id # current_segment.val.id

\* a split has returned one segment, force_complete_current another, and a
\* third segment is none of them
C1_Witness ==
    \E i, j \in 1..Len(emitted) :
        /\ emitted[i].closed_by = "split"
        /\ emitted[j].closed_by = "force"

\* C6: every segment emitted by add_chunk (closed by sustained silence or
\* by a max-duration split) has a duration within [500 ms, 10 s].
C6_DurationWithinBounds ==
    \A i \in 1..Len(emitted) :
        emitted[i].closed_by \in {"silence", "split"} =>
            /\ Duration(emitted[i].seg, now) >= MinSegmentDurationMs
            /\ Duration(emitted[i].seg, now) <= MaxSegmentDurationMs

\* C7: no audio frame is contained in two emitted segments.
C7_NoFrameInTwoSegments ==
    \A i, j \in 1..Len(emitted) :
        i # j => Frames(emitted[i].seg) \cap Frames(emitted[j].seg) = {}

\* C8: while no frame has been classified as speech, no segment has been
\* opened, none has been returned and no recognition task has been sent.
C8_SilenceEmitsNothing ==
    ~ever_speech =>
        /\ current_segment = None
        /\ n_segments = 0
        /\ emitted = <<>>
        /\ task_queue = <<>>

\* three chunks, one of them with a non-zero score, none taken for speech
C8_Witness ==
    /\ ~ever_speech
    /\ n_chunks >= 3
    /\ \E k \in 1..Len(history_window) : history_window[k] > 0

\* C25: force_complete_current returns the open segment, if there is one,
\* complete and with its end time set, whatever the silence so far, and
\* leaves no segment open; with no segment open it returns nothing and
\* changes nothing.
C25_ForceCompleteFlushes ==
    /\ [](~current_segment.some
            => /\ ForceComplete(current_segment, now).completed = <<>>
               /\ ForceComplete(current_segment, now).current = current_segment)
    /\ [][(/\ Len(emitted') = Len(emitted) + 1
           /\ emitted'[Len(emitted')].closed_by = "force")
          => /\ current_segment.some
             /\ current_segment' = None
             /\ emitted'[Len(emitted')].seg =
                   [current_segment.val EXCEPT !.end_time = Some(now'),
                                               !.is_complete = TRUE]
             /\ UNCHANGED <<history_window, speech_probability,
                            silence_duration, last_speech_time>>]_vars

\* a segment force-closed while silence was being counted
C25_Witness ==
    /\ emitted # <<>>
    /\ emitted[Len(emitted)].closed_by = "force"
    /\ emitted[Len(emitted)].seg.is_complete
    /\ current_segment = None
    /\ silence_duration > 0

\* One add_chunk call on an open segment: when the silence has timed out
\* the segment is closed, returned if it lasted the minimum and dropped
\* otherwise; when it has not, the frame is in the open segment.
Accumulated(timed_out) ==
    (n_chunks' = n_chunks + 1 /\ current_segment.some)
        => IF timed_out
           THEN /\ current_segment' = None
                /\ IF Duration(current_segment.val, now') >= MinSegmentDurationMs
                   THEN /\ Len(emitted') = Len(emitted) + 1
                        /\ emitted'[Len(emitted')].seg =
                              Complete(current_segment.val, now')
                   ELSE emitted' = emitted
           ELSE /\ current_segment'.some
                /\ n_chunks' \in Frames(current_segment'.val)

\* C31: on an open segment every frame is appended until the silence has
\* lasted 800 ms or more; then the segment is closed, returned if it lasted
\* at least 500 ms and dropped otherwise, and no segment is open.
C31_ClosedAtTimeout ==
    [][Accumulated(silence_duration' >= SilenceTimeoutMs)]_vars

\* C31 as amended: the segment is closed once the silence has lasted more
\* than 800 ms; a frame that arrives exactly 800 ms after the last speech
\* frame is still appended.
C31_ClosedAfterTimeout ==
    [][Accumulated(silence_duration' > SilenceTimeoutMs)]_vars

\* a silence frame that arrived exactly 800 ms after the last speech frame
\* has been appended to the open segment
C31_Witness ==
    /\ current_segment.some
    /\ silence_duration = SilenceTimeoutMs
    /\ n_chunks \in Frames(current_segment.val)

\* add_chunk has split the open segment in this step
SplitStep ==
    /\ n_chunks' = n_chunks + 1
    /\ Len(emitted') = Len(emitted) + 1
    /\ emitted'[Len(emitted')].closed_by = "split"

\* C32: when continuous speech exceeds the maximum, add_chunk closes the open
\* segment and opens the next one in the same call; no frame is lost, and
\* the segment closed lasts exactly the maximum, 10 s, the rest of the
\* speech going to the next.
C32_SplitAtMaximum ==
    [][SplitStep =>
          LET first == emitted'[Len(emitted')].seg
          IN /\ current_segment.some /\ current_segment'.some
             /\ first.id = current_segment.val.id
             /\ current_segment'.val.id # first.id
             /\ Frames(current_segment.val) \cup {n_chunks'}
                   \subseteq Frames(first) \cup Frames(current_segment'.val)
             /\ Duration(first, now') = MaxSegmentDurationMs]_vars

(***************************************************************************)
(* Exact rationals <<n, d>>, d > 0, for the f32 quantities                 *)
(***************************************************************************)
RLess(a, b) == a[1] * b[2] < b[1] * a[2]
RLeq(a, b) == a[1] * b[2] <= b[1] * a[2]
REq(a, b) == a[1] * b[2] = b[1] * a[2]
RAdd(a, b) == <<a[1] * b[2] + b[1] * a[2], a[2] * b[2]>>
RScale(a, k) == <<a[1] * k, a[2]>>
RDivInt(a, k) == <<a[1], a[2] * k>>

Gcd(a, b) ==
    LET RECURSIVE Go(_, _)
        Go(x, y) == IF y = 0 THEN x ELSE Go(y, x % y)
    IN Go(a, b)

\* the canonical form, so that equal values are equal tuples
RNorm(a) ==
    IF a[1] = 0 THEN <<0, 1>>
    ELSE LET g == Gcd(a[1], a[2]) IN <<a[1] \div g, a[2] \div g>>

(***************************************************************************)
(* Bounds of the result-manager model                                      *)
(***************************************************************************)
\* speech segments whose results arrive
NumSpeechSegments == 3
\* process_result calls explored
MaxResults == 3
\* SegmentOrganizer::new(max_segments)
max_segments == 2
\* time between the timestamps of two consecutive results (ms)
NearGap == 1000
FarGap == 2500
ResultGaps == {NearGap, FarGap}
\* processing_time_ms of a fast and of an accurate result
FastLatencyMs == 100
AccurateLatencyMs == 700

SpeechSegments == 1..NumSpeechSegments

\* recognised texts, as sequences of one-letter words
Texts == {<<"a", "b", "c">>, <<"a", "b", "c", "d">>,
          <<"a", "b", "c", "d", "e">>}
\* confidence of a fast result (engine confidence * 0.8) and of an accurate
\* result
FastConfidence == <<18, 25>>
AccurateConfidence == <<9, 10>>
\* the speaker set by ContextAwareProcessor::process_with_context
Speakers == {Some("Speaker_0")}

(***************************************************************************)
(* Program constants of result_manager.rs                                  *)
(***************************************************************************)
DedupTimeWindowMs == 2000
SimilarityThreshold == <<4, 5>>
RelatedTimeWindowMs == 3000
RelatedThreshold == <<3, 5>>
AutoParagraphThresholdMs == 3000

(***************************************************************************)
(* TranscriptResult (layered_processor.rs)                                 *)
(***************************************************************************)
\* segment ids are strings built by format!; a sequence of their parts here
FastId(ts) == <<"fast", ToString(ts)>>
AccurateId(elapsed) == <<"accurate", ToString(elapsed)>>

\* FastProcessor::transcribe_draft's result
FastResult(text, speaker, ts) ==
    [text |-> text, confidence |-> FastConfidence, is_temporary |-> TRUE,
     speaker |-> speaker, timestamp |-> ts,
     processing_time_ms |-> FastLatencyMs, segment_id |-> FastId(ts)]

\* AccurateProcessor::transcribe_accurate's result
AccurateResult(text, speaker, ts, elapsed) ==
    [text |-> text, confidence |-> AccurateConfidence, is_temporary |-> FALSE,
     speaker |-> speaker, timestamp |-> ts,
     processing_time_ms |-> AccurateLatencyMs,
     segment_id |-> AccurateId(elapsed)]

\* str::len of a text of one-letter words joined by single spaces
TextLen(text) == IF Len(text) = 0 THEN 0 ELSE 2 * Len(text) - 1

WordSet(text) == {text[k] : k \in 1..Len(text)}

TimeDiff(a, b) == IF a > b THEN a - b ELSE b - a

(***************************************************************************)
(* DeduplicationEngine                                                     *)
(***************************************************************************)
CalculateTextSimilarity(text1, text2) ==
    IF text1 = text2 THEN <<1, 1>>
    ELSE IF Len(text1) = 0 /\ Len(text2) = 0 THEN <<1, 1>>
    ELSE IF Len(text1) = 0 \/ Len(text2) = 0 THEN <<0, 1>>
    ELSE LET intersection == Cardinality(WordSet(text1) \cap WordSet(text2))
             union == Cardinality(WordSet(text1) \cup WordSet(text2))
         IN IF union = 0 THEN <<0, 1>> ELSE <<intersection, union>>

\* is_duplicate with `similarity > self.similarity_threshold`
IsDuplicateAboveThreshold(a, b) ==
    IF TimeDiff(a.timestamp, b.timestamp) > DedupTimeWindowMs THEN FALSE
    ELSE RLess(SimilarityThreshold, CalculateTextSimilarity(a.text, b.text))

IsDuplicate(a, b) ==
    IF TimeDiff(a.timestamp, b.timestamp) > DedupTimeWindowMs THEN FALSE
    ELSE RLeq(SimilarityThreshold, CalculateTextSimilarity(a.text, b.text))

\* Iterator::max_by on the confidence: the last of the maximal elements
BestIndex(group) ==
    CHOOSE i \in 1..Len(group) :
        /\ \A j \in 1..Len(group) :
              ~RLess(group[i].confidence, group[j].confidence)
        /\ \A j \in (i + 1)..Len(group) :
              RLess(group[j].confidence, group[i].confidence)

\* Iterator::max_by_key on the text length: the last of the maximal elements
LongestIndex(group) ==
    CHOOSE i \in 1..Len(group) :
        /\ \A j \in 1..Len(group) :
              ~(TextLen(group[i].text) < TextLen(group[j].text))
        /\ \A j \in (i + 1)..Len(group) :
              TextLen(group[j].text) < TextLen(group[i].text)

MinOf(S) == CHOOSE x \in S : \A y \in S : x <= y

RSum(group) ==
    LET RECURSIVE Go(_)
        Go(i) == IF i = 0 THEN <<0, 1>>
                 ELSE RAdd(Go(i - 1), group[i].confidence)
    IN Go(Len(group))

MergedId(id) == <<"merged">> \o id

MergeGroup(group) ==
    LET n == Len(group)
        best == group[BestIndex(group)]
        longest == group[LongestIndex(group)]
    IN [text |-> longest.text,
        confidence |-> RNorm(RDivInt(RSum(group), n)),
        is_temporary |-> FALSE,
        speaker |-> best.speaker,
        timestamp |-> best.timestamp,
        processing_time_ms |->
            MinOf({group[k].processing_time_ms : k \in 1..n}),
        segment_id |-> MergedId(best.segment_id)]

\* the indices of S in increasing order
SortedIndices(S) ==
    LET RECURSIVE Go(_)
        Go(T) == IF T = {} THEN <<>>
                 ELSE LET m == MinOf(T) IN <<m>> \o Go(T \ {m})
    IN Go(S)

\* the groups merge_similar_results forms, as sequences of indices
DuplicateGroups(results) ==
    LET n == Len(results)
        RECURSIVE Go(_, _)
        Go(i, used) ==
            IF i > n THEN <<>>
            ELSE IF i \in used THEN Go(i + 1, used)
            ELSE LET members == {j \in (i + 1)..n :
                                    /\ j \notin used
                                    /\ IsDuplicate(results[i], results[j])}
                 IN <<<<i>> \o SortedIndices(members)>>
                    \o Go(i + 1, used \cup {i} \cup members)
    IN Go(1, {})

MergeSimilarResults(results) ==
    IF Len(results) <= 1 THEN results
    ELSE LET groups == DuplicateGroups(results)
         IN [g \in 1..Len(groups) |->
                IF Len(groups[g]) = 1 THEN results[groups[g][1]]
                ELSE MergeGroup([k \in 1..Len(groups[g]) |->
                                    results[groups[g][k]]])]

(***************************************************************************)
(* SegmentOrganizer                                                        *)
(***************************************************************************)
ManagedSegmentId(result) ==
    <<"seg", ToString(result.timestamp)>> \o result.segment_id

NewManagedSegment(result, source) ==
    [id |-> ManagedSegmentId(result),
     text |-> result.text,
     confidence |-> result.confidence,
     speaker |-> result.speaker,
     timestamp |-> result.timestamp,
     start_time |-> result.timestamp,
     end_time |-> result.timestamp + result.processing_time_ms,
     is_final |-> ~result.is_temporary,
     source |-> source,
     corrections |-> <<>>]

ShouldMergeWithPrevious(new_segment, last_segment) ==
    LET time_gap == IF new_segment.start_time > last_segment.end_time
                    THEN new_segment.start_time - last_segment.end_time
                    ELSE 0
        same_speaker == new_segment.speaker = last_segment.speaker
    IN /\ time_gap < AutoParagraphThresholdMs
       /\ same_speaker
       /\ ~last_segment.is_final

\* the merge of segment into last_segment done in place by add_segment
MergeIntoLast(last_segment, segment) ==
    LET target_len == TextLen(last_segment.text)
        source_len == TextLen(segment.text)
        total_len == target_len + source_len
    IN [last_segment EXCEPT
           !.text = IF Len(last_segment.text) # 0 /\ Len(segment.text) # 0
                    THEN last_segment.text \o segment.text
                    ELSE IF Len(last_segment.text) = 0 THEN segment.text
                    ELSE last_segment.text,
           !.end_time = segment.end_time,
           !.confidence =
               IF total_len > 0
               THEN RNorm(RDivInt(RAdd(RScale(last_segment.confidence,
                                              target_len),
                                       RScale(segment.confidence, source_len)),
                                  total_len))
               ELSE last_segment.confidence,
           !.corrections = last_segment.corrections \o segment.corrections,
           !.source = "Merged"]

\* An append that never evicts.
PushUnbounded(segs, segment) == Append(segs, segment)

\* the bounded append of add_segment
PushBounded(segs, segment) ==
    IF Len(segs) >= max_segments
    THEN Append(Tail(segs), segment)
    ELSE Append(segs, segment)

\* SegmentOrganizer::add_segment: the new buffer and the returned id
AddSegment(segs, result, source) ==
    LET segment == NewManagedSegment(result, source)
        should_merge == IF Len(segs) > 0
                        THEN ShouldMergeWithPrevious(segment, segs[Len(segs)])
                        ELSE FALSE
    IN IF should_merge
       THEN [segments |-> [segs EXCEPT ![Len(segs)] =
                                   MergeIntoLast(segs[Len(segs)], segment)],
             id |-> segs[Len(segs)].id,
             evicted |-> 0]
       ELSE [segments |-> PushBounded(segs, segment),
             id |-> segment.id,
             evicted |-> IF Len(segs) >= max_segments THEN 1 ELSE 0]

(***************************************************************************)
(* ResultManager                                                           *)
(***************************************************************************)
IsRelatedSegment(pending, pending_key, final_result) ==
    IF pending_key \in DOMAIN pending
    THEN /\ TimeDiff(final_result.timestamp, pending[pending_key].timestamp)
               < RelatedTimeWindowMs
         /\ RLess(RelatedThreshold,
                  CalculateTextSimilarity(pending[pending_key].text,
                                          final_result.text))
    ELSE FALSE

RelatedKeys(pending, final_result) ==
    {k \in DOMAIN pending : IsRelatedSegment(pending, k, final_result)}

\* the orders in which a HashMap may iterate over the keys K
KeyOrders(K) ==
    {o \in [1..Cardinality(K) -> K] :
        \A i, j \in 1..Cardinality(K) : i # j => o[i] # o[j]}

SourceOf(merged_result) ==
    IF merged_result.segment_id[1] = "merged" THEN "Merged"
    ELSE IF merged_result.is_temporary THEN "FastProcessing"
    ELSE "AccurateProcessing"

\* the loop over merged_results: add_segment for each, in order
CommitAll(segs, merged_results) ==
    LET RECURSIVE Go(_)
        Go(i) ==
            IF i = 0 THEN [segments |-> segs, updated |-> <<>>, evicted |-> 0]
            ELSE LET before == Go(i - 1)
                     r == AddSegment(before.segments, merged_results[i],
                                     SourceOf(merged_results[i]))
                 IN [segments |-> r.segments,
                     updated |-> Append(before.updated, r.id),
                     evicted |-> before.evicted + r.evicted]
    IN Go(Len(merged_results))

Remove(pending, keys) == [k \in DOMAIN pending \ keys |-> pending[k]]

\* An insert that drops the value.
InsertIgnored(pending, key, value) == pending

Insert(pending, key, value) ==
    [k \in DOMAIN pending \cup {key} |->
        IF k = key THEN value ELSE pending[k]]

\* the results_to_process of a final result, the related pending entries
\* following it in the order the map yields them
ResultsToProcess(pending, result, order) ==
    <<result>> \o [i \in 1..Len(order) |-> pending[order[i]]]

\* ResultManager::process_result of a temporary result of speech segment s
ProcessFast(s, text, speaker, dt) ==
    /\ Cardinality({x \in SpeechSegments : fast_seen[x].some})
          + Cardinality(acc_seen) < MaxResults
    /\ ~fast_seen[s].some
    /\ \A x \in SpeechSegments : x >= s => ~fast_seen[x].some
    /\ LET ts == rm_now + dt
           result == FastResult(text, speaker, ts)
       IN /\ pending_results' =
                 Insert(pending_results, result.segment_id, result)
          /\ rm_now' = ts
          /\ fast_seen' = [fast_seen EXCEPT ![s] = Some(result.segment_id)]
          /\ last_call' = [final |-> FALSE, seg |-> s, fast_first |-> FALSE,
                           commits |-> 0, sources |-> {}, updated |-> <<>>]
          /\ UNCHANGED <<segments, acc_seen, n_evicted, seg_vars, dd_vars,
                         spk_vars, ext_vars>>

\* ResultManager::process_result of the final result of speech segment s
ProcessAccurate(s, text, speaker, dt, elapsed) ==
    /\ Cardinality({x \in SpeechSegments : fast_seen[x].some})
          + Cardinality(acc_seen) < MaxResults
    /\ \A x \in SpeechSegments : x >= s => x \notin acc_seen
    /\ LET ts == rm_now + dt
           result == AccurateResult(text, speaker, ts, elapsed)
           related_keys == RelatedKeys(pending_results, result)
       IN \E order \in KeyOrders(related_keys) :
            LET results_to_process ==
                    ResultsToProcess(pending_results, result, order)
                groups == DuplicateGroups(results_to_process)
                merged_results == MergeSimilarResults(results_to_process)
                done == CommitAll(segments, merged_results)
                \* the groups holding a result of speech segment s
                mine == {g \in 1..Len(groups) :
                            \E k \in 1..Len(groups[g]) :
                               \/ groups[g][k] = 1
                               \/ /\ fast_seen[s].some
                                  /\ results_to_process[groups[g][k]].segment_id
                                        = fast_seen[s].val}
            IN /\ pending_results' = Remove(pending_results, related_keys)
               /\ segments' = done.segments
               /\ n_evicted' = n_evicted + done.evicted
               /\ rm_now' = ts
               /\ acc_seen' = acc_seen \cup {s}
               /\ last_call' =
                     [final |-> TRUE, seg |-> s,
                      fast_first |-> fast_seen[s].some,
                      commits |-> Cardinality(mine),
                      sources |-> {SourceOf(merged_results[g]) : g \in mine},
                      updated |-> done.updated]
               /\ UNCHANGED <<fast_seen, seg_vars, dd_vars, spk_vars,
                               ext_vars>>

\* elapsed time since the segment started, in the accurate result's id
Elapsed == {1200}

NextRM ==
    \/ \E s \in SpeechSegments, text \in Texts, speaker \in Speakers,
          dt \in ResultGaps :
          ProcessFast(s, text, speaker, dt)
    \/ \E s \in SpeechSegments, text \in Texts, speaker \in Speakers,
          dt \in ResultGaps, elapsed \in Elapsed :
          ProcessAccurate(s, text, speaker, dt, elapsed)

(***************************************************************************)
(* Claims about the result manager (checked under SpecRM)                  *)
(***************************************************************************)
\* C2: when a segment's fast result was processed before its accurate
\* result, processing the accurate result commits exactly one segment for
\* it, with source AccurateProcessing or Merged.
C2_OneCommitPerSegment ==
    (last_call.final /\ last_call.fast_first) =>
        /\ last_call.commits = 1
        /\ last_call.sources \subseteq {"AccurateProcessing", "Merged"}

\* C3: once both results of a speech segment have been processed, its fast
\* result is no longer in the pending map.
C3_NoPendingFastAfterBoth ==
    \A s \in SpeechSegments :
        (fast_seen[s].some /\ s \in acc_seen) =>
            fast_seen[s].val \notin DOMAIN pending_results

\* C4: the committed segments are in non-decreasing start_time order.
C4_CommittedInStartTimeOrder ==
    \A i, j \in 1..Len(segments) :
        i < j => segments[i].start_time <= segments[j].start_time

\* C35: process_result of a temporary result puts it into the pending map
\* under its segment id and does nothing else: the other pending entries
\* and the committed segments are as before and no segment id is returned.
C35_TemporaryOnlyPending ==
    [][fast_seen' # fast_seen
       => LET id == fast_seen'[last_call'.seg].val
          IN /\ ~last_call'.final
             /\ DOMAIN pending_results' = DOMAIN pending_results \cup {id}
             /\ pending_results'[id].segment_id = id
             /\ pending_results'[id].is_temporary
             /\ \A k \in DOMAIN pending_results \ {id} :
                   pending_results'[k] = pending_results[k]
             /\ segments' = segments
             /\ last_call'.updated = <<>>]_vars

\* a temporary result was processed after a segment had been committed
C35_Witness ==
    /\ ~last_call.final
    /\ last_call.seg > 0
    /\ segments # <<>>
    /\ fast_seen[last_call.seg].some
    /\ fast_seen[last_call.seg].val \in DOMAIN pending_results

\* C5: the committed-segment buffer never holds more than max_segments
\* entries.
C5_BufferBounded == Len(segments) <= max_segments

\* the buffer is full and an older segment has been evicted
C5_Witness == Len(segments) = max_segments /\ n_evicted > 0

(***************************************************************************)
(* merge_similar_results on a group, then on its own outcome twice over    *)
(***************************************************************************)
DedupTimes == {0, NearGap, FarGap}
DedupConfidences == {<<1, 2>>, FastConfidence, AccurateConfidence}
DedupSpeakers == {None, Some("Speaker_0")}

DedupInputs ==
    {FastResult(text, speaker, ts)
        : text \in Texts, speaker \in DedupSpeakers, ts \in DedupTimes}
    \cup
    {AccurateResult(text, speaker, ts, elapsed)
        : text \in Texts, speaker \in DedupSpeakers, ts \in DedupTimes,
          elapsed \in Elapsed}

WithConfidence(result, c) == [result EXCEPT !.confidence = c]

\* the segments ResultManager::process_result commits for merged results,
\* into an empty organizer
Committed(merged_results) == CommitAll(<<>>, merged_results).segments

MergeFirst ==
    /\ dd_stage = "input"
    /\ dd_results' = MergeSimilarResults(dd_inputs)
    /\ dd_first' = Committed(MergeSimilarResults(dd_inputs))
    /\ dd_stage' = "merged"
    /\ UNCHANGED <<dd_inputs, dd_second, seg_vars, rm_vars, spk_vars,
                   ext_vars>>

MergeAgain ==
    /\ dd_stage = "merged"
    /\ dd_second' = Committed(MergeSimilarResults(dd_results \o dd_results))
    /\ dd_stage' = "again"
    /\ UNCHANGED <<dd_inputs, dd_results, dd_first, seg_vars, rm_vars,
                   spk_vars, ext_vars>>

NextDedup == MergeFirst \/ MergeAgain

\* C9: merging an already-merged result with a copy of itself and
\* committing the outcome yields the same committed segment as the first
\* merge.
C9_MergeIdempotent ==
    (/\ dd_stage = "again"
     /\ Len(dd_results) = 1
     /\ dd_results[1].segment_id[1] = "merged") => dd_second = dd_first

(***************************************************************************)
(* is_duplicate on two results                                             *)
(***************************************************************************)
\* timestamps below, at and above the window
DupTimes == {0, NearGap, DedupTimeWindowMs, FarGap}
\* texts with no word, with a repeated word, and of three to five words
DupTexts == Texts \cup {<<>>, <<"a", "b", "c", "d", "d">>}

IsDuplicateCall(a, b) ==
    /\ dup_call' = Some([a |-> a, b |-> b,
                         duplicate |-> IsDuplicate(a, b),
                         reverse |-> IsDuplicate(b, a)])
    /\ UNCHANGED <<split_call, ctx_call>>
    /\ UNCHANGED <<core_vars, cmd_vars, work_vars, org_vars, buf_vars, cap_vars,
                   long_vars>>

NextDup ==
    \E t1 \in DupTexts, t2 \in DupTexts, ts1 \in DupTimes, ts2 \in DupTimes :
        IsDuplicateCall(FastResult(t1, None, ts1),
                        AccurateResult(t2, None, ts2, AccurateLatencyMs))

\* the Jaccard similarity of the word sets of two texts (1 for two texts
\* without words)
Jaccard(text1, text2) ==
    LET a == WordSet(text1)
        b == WordSet(text2)
    IN IF a \cup b = {} THEN <<1, 1>>
       ELSE <<Cardinality(a \cap b), Cardinality(a \cup b)>>

\* C33: two results are duplicates exactly when their timestamps differ by
\* less than 2 s and the Jaccard similarity of their words is at least 0.8;
\* the order of the two does not matter.
C33_DuplicateBelowWindow ==
    dup_call.some =>
        LET c == dup_call.val
        IN /\ c.duplicate <=>
                 /\ TimeDiff(c.a.timestamp, c.b.timestamp) < DedupTimeWindowMs
                 /\ RLeq(SimilarityThreshold, Jaccard(c.a.text, c.b.text))
           /\ c.duplicate = c.reverse

\* C33 as amended: the timestamps differ by at most 2 s.
C33_DuplicateWithinWindow ==
    dup_call.some =>
        LET c == dup_call.val
        IN /\ c.duplicate <=>
                 /\ TimeDiff(c.a.timestamp, c.b.timestamp) <= DedupTimeWindowMs
                 /\ RLeq(SimilarityThreshold, Jaccard(c.a.text, c.b.text))
           /\ c.duplicate = c.reverse

\* two results exactly 2 s apart whose similarity is exactly 0.8 are
\* duplicates
C33_Witness ==
    /\ dup_call.some
    /\ dup_call.val.duplicate
    /\ TimeDiff(dup_call.val.a.timestamp, dup_call.val.b.timestamp)
          = DedupTimeWindowMs
    /\ REq(Jaccard(dup_call.val.a.text, dup_call.val.b.text),
           SimilarityThreshold)

(***************************************************************************)
(* AccurateProcessor::transcribe_accurate: the split of a long segment.    *)
(* A chunk audio[start..end] is the range <<start, end>>.                  *)
(***************************************************************************)
\* the longest input is one sample more than this many full chunks
MaxSplitChunks == 4
ChunkSize == 48000
OverlapSize == 4000
LongAudioSeconds == 5

\* the length a given number of full chunks covers
FullLength(k) == k * ChunkSize - (k - 1) * OverlapSize

\* segment lengths in samples: 1 s, 5 s and one sample more, and around
\* every whole number of chunks
SplitLengths ==
    {SampleRate, LongAudioSeconds * SampleRate,
     LongAudioSeconds * SampleRate + 1}
      \cup UNION {{FullLength(k) - 1, FullLength(k), FullLength(k) + 1}
                    : k \in 1..MaxSplitChunks}

Smaller(a, b) == IF a < b THEN a ELSE b

\* A split whose chunks do not overlap.
SplitWithoutOverlap(len) ==
    LET RECURSIVE Go(_, _)
        Go(start, chunks) ==
            IF ~(start < len) THEN chunks
            ELSE LET end == Smaller(start + ChunkSize, len)
                 IN IF end >= len THEN Append(chunks, <<start, end>>)
                    ELSE Go(end, Append(chunks, <<start, end>>))
    IN Go(0, <<>>)

\* split_long_audio on audio of len samples
SplitLongAudio(len) ==
    LET RECURSIVE Go(_, _)
        Go(start, chunks) ==
            IF ~(start < len) THEN chunks
            ELSE LET end == Smaller(start + ChunkSize, len)
                 IN IF end >= len THEN Append(chunks, <<start, end>>)
                    ELSE Go(end - OverlapSize, Append(chunks, <<start, end>>))
    IN Go(0, <<>>)

\* segment.length_seconds() > 5.0
AudioChunks(len) ==
    IF len > LongAudioSeconds * SampleRate
    THEN SplitLongAudio(len)
    ELSE <<<<0, len>>>>

\* the text the engine returns for chunk i is the word i; ok is the set of
\* chunks for which process_audio_chunk returns Ok
CombinedText(chunks, ok) ==
    LET RECURSIVE Go(_)
        Go(i) == IF i = 0 THEN <<>>
                 ELSE IF i \in ok THEN Append(Go(i - 1), i)
                 ELSE Go(i - 1)
    IN Go(Len(chunks))

TranscribeAccurate(len, ok) ==
    /\ ok \subseteq 1..Len(AudioChunks(len))
    /\ split_call' =
          Some([len |-> len,
                chunks |-> AudioChunks(len),
                ok |-> ok,
                result |-> IF ok = {} THEN None
                           ELSE Some(CombinedText(AudioChunks(len), ok))])
    /\ UNCHANGED <<dup_call, ctx_call>>
    /\ UNCHANGED <<core_vars, cmd_vars, work_vars, org_vars, buf_vars, cap_vars,
                   long_vars>>

NextSplit ==
    \E len \in SplitLengths, ok \in SUBSET (1..(MaxSplitChunks + 1)) :
        TranscribeAccurate(len, ok)

\* C36: a segment longer than 5 s is split into chunks of at most 48000
\* samples, in order, each starting 4000 samples before the end of the one
\* before, the first at the first sample and the last ending at the last
\* sample; the loop ends after at most one chunk per 44000 samples; a segment
\* of at most 5 s is one chunk; the text is made of the texts returned, in
\* the order of their chunks.
C36_SplitCoversInOrder ==
    split_call.some =>
        LET c == split_call.val
            n == Len(c.chunks)
        IN /\ n >= 1
           /\ c.chunks[1][1] = 0
           /\ c.chunks[n][2] = c.len
           /\ c.len <= LongAudioSeconds * SampleRate => n = 1
           /\ c.len > LongAudioSeconds * SampleRate =>
                 /\ \A i \in 1..n :
                       /\ c.chunks[i][1] < c.chunks[i][2]
                       /\ c.chunks[i][2] - c.chunks[i][1] <= ChunkSize
                 /\ \A i \in 1..(n - 1) :
                       /\ c.chunks[i + 1][1] = c.chunks[i][2] - OverlapSize
                       /\ c.chunks[i][1] < c.chunks[i + 1][1]
                       /\ c.chunks[i][2] < c.chunks[i + 1][2]
                 /\ n <= c.len \div (ChunkSize - OverlapSize) + 1
           /\ c.result.some =>
                 /\ \A k \in 1..Len(c.result.val) : c.result.val[k] \in c.ok
                 /\ \A i \in c.ok :
                       \E k \in 1..Len(c.result.val) : c.result.val[k] = i
                 /\ \A k \in 1..(Len(c.result.val) - 1) :
                       c.result.val[k] < c.result.val[k + 1]

\* a segment one sample longer than two full chunks: three chunks, the last
\* of 4001 samples, all transcribed
C36_Witness ==
    /\ split_call.some
    /\ split_call.val.len = FullLength(2) + 1
    /\ Len(split_call.val.chunks) = 3
    /\ split_call.val.chunks[3] = <<FullLength(2) - OverlapSize, FullLength(2) + 1>>
    /\ split_call.val.result = Some(<<1, 2, 3>>)

(***************************************************************************)
(* ConversationBuffer::get_recent_context.  A text is the sequence of its  *)
(* words, as split_whitespace yields them.                                 *)
(***************************************************************************)
MaxCtxSegments == 3
MaxSegmentWords == 3
MaxContextWords == 5

\* the words of the conversation are numbered in the order spoken: the
\* buffer whose segments have the given numbers of words
BufferOf(lengths) ==
    [i \in 1..Len(lengths) |->
        LET before == SeqSum([j \in 1..(i - 1) |-> lengths[j]])
        IN [k \in 1..lengths[i] |-> before + k]]

CtxBuffers ==
    UNION {{BufferOf(lengths) : lengths \in [1..n -> 0..MaxSegmentWords]}
              : n \in 0..MaxCtxSegments}

\* A clip that keeps the first words of the boundary segment.
ClipFirstWords(words, remaining) == SubSeq(words, 1, remaining)

\* words[words.len() - remaining..]
Clip(words, remaining) ==
    SubSeq(words, Len(words) - remaining + 1, Len(words))

\* get_recent_context on the segments, newest first
GetRecentContext(segs, max_words) ==
    LET RECURSIVE Go(_, _, _)
        Go(i, context, word_count) ==
            IF i = 0 THEN context
            ELSE LET words == segs[i]
                 IN IF word_count + Len(words) > max_words
                    THEN Clip(words, max_words - word_count) \o context
                    ELSE Go(i - 1, words \o context, word_count + Len(words))
    IN Go(Len(segs), <<>>, 0)

\* one call on one buffer
RecentContextCall(segs, max_words) ==
    /\ ctx_call = None
    /\ ctx_call' = Some([segments |-> segs, max_words |-> max_words,
                         context |-> GetRecentContext(segs, max_words)])
    /\ UNCHANGED <<dup_call, split_call>>
    /\ UNCHANGED <<core_vars, cmd_vars, work_vars, org_vars, buf_vars, cap_vars,
                   long_vars>>

NextCtx ==
    \E segs \in CtxBuffers, max_words \in 0..MaxContextWords :
        RecentContextCall(segs, max_words)

\* all the words of the buffer, oldest first
Conversation(segs) ==
    LET RECURSIVE Go(_)
        Go(i) == IF i = 0 THEN <<>> ELSE Go(i - 1) \o segs[i]
    IN Go(Len(segs))

\* C37: get_recent_context(N) returns at most N words, the last N words of
\* the buffered conversation in the order spoken: whole recent segments and
\* the boundary segment clipped to the words that are left.
C37_MostRecentWords ==
    ctx_call.some =>
        LET c == ctx_call.val
            all == Conversation(c.segments)
            n == Smaller(c.max_words, Len(all))
        IN /\ Len(c.context) <= c.max_words
           /\ c.context = SubSeq(all, Len(all) - n + 1, Len(all))

\* the limit falls inside a segment: two of its three words are kept
C37_Witness ==
    /\ ctx_call.some
    /\ Len(ctx_call.val.segments) = 2
    /\ Len(ctx_call.val.segments[1]) = 3
    /\ Len(ctx_call.val.segments[2]) = 2
    /\ ctx_call.val.max_words = 4
    /\ ctx_call.val.context = <<2, 3, 4, 5>>

(***************************************************************************)
(* RealtimeSpeakerDiarization (realtime_speaker_diarization.rs)            *)
(***************************************************************************)
\* identify_speaker calls in one behaviour
MaxCalls == 4

MinAudioSamples == 1600
max_history == 10
SimilarityThresholdSpk == <<7, 10>>
FreqWeight == <<3, 10>>
CentroidWeight == <<2, 10>>
FormantWeight == <<3, 10>>
MfccWeight == <<2, 10>>
Alpha == <<1, 10>>

RSub(a, b) == RNorm(<<a[1] * b[2] - b[1] * a[2], a[2] * b[2]>>)
RPlus(a, b) == RNorm(RAdd(a, b))
RMul(a, b) == RNorm(<<a[1] * b[1], a[2] * b[2]>>)
RDiv(a, b) == RNorm(<<a[1] * b[2], a[2] * b[1]>>)
RAbs(a) == IF a[1] < 0 THEN <<-a[1], a[2]>> ELSE a
RMin(a, b) == IF RLess(b, a) THEN b ELSE a
RZero == <<0, 1>>
ROne == <<1, 1>>
RPos(a) == a[1] > 0

\* the root of a perfect square
Sqrt(n) == CHOOSE r \in 0..n : r * r = n

\* twelve band log-energies; the sums of their squares are 144 and 0
MfccLow == <<-4, -4, -4, -4, -4, -4, -4, -4, -4, 0, 0, 0>>
MfccUnit == <<0, 0, 0, 0, 0, 0, 0, 0, 0, 0, 0, 0>>

Features(f0, formants, centroid, mfcc) ==
    [fundamental_freq |-> <<f0, 1>>,
     formant_frequencies |-> [i \in 1..3 |-> <<formants[i], 1>>],
     spectral_centroid |-> <<centroid, 1>>,
     mfcc_features |-> mfcc]

\* what extract_voice_features can return: the fundamental is positive,
\* find_formants_from_lpc pads missing peaks with 0.0
FeatureVectors ==
    {Features(200, <<500, 1500, 2500>>, 4000, MfccLow),
     Features(220, <<500, 1500, 2500>>, 4000, MfccLow),
     Features(100, <<800, 1200, 3000>>, 2000, MfccLow),
     Features(200, <<500, 1500, 0>>, 4000, MfccLow),
     Features(200, <<500, 0, 0>>, 4000, MfccLow),
     Features(500, <<0, 0, 0>>, 0, MfccUnit)}

AudioLengths == {MinAudioSamples \div 2, MinAudioSamples}
Audios == [samples : AudioLengths, features : FeatureVectors]

ExtractVoiceFeatures(audio) ==
    IF audio.samples < MinAudioSamples THEN None ELSE Some(audio.features)

\* 1.0 - (|x - y| / (x + y) * 2.0).min(1.0)
RelativeSimilarity(x, y) ==
    RSub(ROne, RMin(RMul(RDiv(RAbs(RSub(x, y)), RPlus(x, y)), <<2, 1>>), ROne))

FormantSimilarity(features, profile) ==
    LET formant_count == 3
        RECURSIVE Go(_)
        Go(i) ==
            IF i = 0 THEN RZero
            ELSE IF /\ RPos(features.formant_frequencies[i])
                    /\ RPos(profile.formant_frequencies[i])
                 THEN RPlus(Go(i - 1),
                            RelativeSimilarity(features.formant_frequencies[i],
                                               profile.formant_frequencies[i]))
                 ELSE Go(i - 1)
    IN RDiv(Go(formant_count), <<formant_count, 1>>)

MfccSimilarity(features) ==
    LET mfcc_distance ==
            SeqSum([i \in 1..12 |->
                       features.mfcc_features[i] * features.mfcc_features[i]])
    IN <<1, 1 + Sqrt(mfcc_distance)>>

CalculateSpeakerSimilarity(features, profile) ==
    LET freq == /\ RPos(features.fundamental_freq)
                /\ RPos(profile.fundamental_freq)
        cent == /\ RPos(features.spectral_centroid)
                /\ RPos(profile.spectral_centroid)
        s1 == IF freq
              THEN RMul(RelativeSimilarity(features.fundamental_freq,
                                           profile.fundamental_freq),
                        FreqWeight)
              ELSE RZero
        w1 == IF freq THEN FreqWeight ELSE RZero
        s2 == IF cent
              THEN RMul(RelativeSimilarity(features.spectral_centroid,
                                           profile.spectral_centroid),
                        CentroidWeight)
              ELSE RZero
        w2 == IF cent THEN CentroidWeight ELSE RZero
        s3 == RMul(FormantSimilarity(features, profile), FormantWeight)
        s4 == RMul(MfccSimilarity(features), MfccWeight)
        similarity == RPlus(RPlus(s1, s2), RPlus(s3, s4))
        weight_sum == RPlus(RPlus(w1, w2), RPlus(FormantWeight, MfccWeight))
    IN RDiv(similarity, weight_sum)

\* p * (1 - alpha) + f * alpha
Ema(p, f) == RPlus(RMul(p, RSub(ROne, Alpha)), RMul(f, Alpha))

UpdateSpeakerProfile(profiles, speaker_id, features) ==
    LET profile == profiles[speaker_id]
        updated ==
            [profile EXCEPT
                !.fundamental_freq =
                    IF RPos(features.fundamental_freq)
                    THEN Ema(@, features.fundamental_freq) ELSE @,
                !.spectral_centroid =
                    IF RPos(features.spectral_centroid)
                    THEN Ema(@, features.spectral_centroid) ELSE @,
                !.formant_frequencies =
                    [i \in 1..3 |->
                        IF RPos(features.formant_frequencies[i])
                        THEN Ema(@[i], features.formant_frequencies[i])
                        ELSE @[i]],
                !.sample_count = @ + 1,
                !.confidence =
                    RMin(RPlus(RMul(@, <<9, 10>>), <<1, 10>>), ROne)]
    IN [profiles EXCEPT ![speaker_id] = updated]

SpeakerId(n) == <<"Speaker", ToString(n)>>

\* the four names of the source, without their common prefix, and the
\* fallback
speaker_names == <<"A", "B", "C", "D">>
SpeakerName(speaker_count) ==
    IF speaker_count + 1 <= Len(speaker_names)
    THEN speaker_names[speaker_count + 1] ELSE "X"

NewProfile(speaker_id, name, features) ==
    [id |-> speaker_id,
     name |-> name,
     fundamental_freq |-> features.fundamental_freq,
     formant_frequencies |-> features.formant_frequencies,
     spectral_centroid |-> features.spectral_centroid,
     confidence |-> ROne,
     sample_count |-> 1]

\* the loop over the profiles, in the order the HashMap iterates
BestMatch(features, profiles, order) ==
    LET RECURSIVE Go(_)
        Go(i) ==
            IF i = 0 THEN [best_match |-> None, best_similarity |-> RZero]
            ELSE LET before == Go(i - 1)
                     similarity ==
                         CalculateSpeakerSimilarity(features,
                                                    profiles[order[i]])
                 IN IF RLess(before.best_similarity, similarity)
                    THEN [best_match |-> Some(order[i]),
                          best_similarity |-> similarity]
                    ELSE before
    IN Go(Len(order))

PushHistoryFeatures(history, features) ==
    LET pushed == Append(history, features)
    IN IF Len(pushed) > max_history THEN Tail(pushed) ELSE pushed

\* identify_speaker past the extraction: the profiles, the current speaker
\* and the returned name
Identify(profiles, features, order) ==
    IF DOMAIN profiles = {}
    THEN [profiles |-> Insert(profiles, SpeakerId(1),
                              NewProfile(SpeakerId(1), "A", features)),
          current |-> Some(SpeakerId(1)),
          name |-> Some("A")]
    ELSE LET best == BestMatch(features, profiles, order)
             speaker_count == Cardinality(DOMAIN profiles)
             speaker_id == SpeakerId(speaker_count + 1)
             speaker_name == SpeakerName(speaker_count)
         IN IF /\ best.best_match.some
               /\ RLess(SimilarityThresholdSpk, best.best_similarity)
            THEN [profiles |-> UpdateSpeakerProfile(profiles,
                                                    best.best_match.val,
                                                    features),
                  current |-> best.best_match,
                  name |-> Some(profiles[best.best_match.val].name)]
            ELSE [profiles |-> Insert(profiles, speaker_id,
                                      NewProfile(speaker_id, speaker_name,
                                                 features)),
                  current |-> Some(speaker_id),
                  name |-> Some(speaker_name)]

Call(features, label, before, after) ==
    [called |-> TRUE, features |-> features, label |-> label,
     count_before |-> before, count_after |-> after]

NoCall ==
    [called |-> FALSE, features |-> None, label |-> None,
     count_before |-> 0, count_after |-> 0]

IdentifySpeakerCall(audio, order) ==
    /\ spk_calls' = spk_calls + 1
    /\ spk_prev' = spk_last
    /\ LET extracted == ExtractVoiceFeatures(audio)
           count == Cardinality(DOMAIN speaker_profiles)
       IN IF ~extracted.some
          THEN /\ spk_last' = Call(None, None, count, count)
               /\ UNCHANGED <<speaker_profiles, current_speaker,
                              feature_history>>
          ELSE LET out == Identify(speaker_profiles, extracted.val, order)
               IN /\ feature_history' =
                        PushHistoryFeatures(feature_history, extracted.val)
                  /\ speaker_profiles' = out.profiles
                  /\ current_speaker' = out.current
                  /\ spk_last' = Call(extracted, out.name, count,
                                      Cardinality(DOMAIN out.profiles))
    /\ UNCHANGED <<seg_vars, rm_vars, dd_vars, ext_vars>>

IdentifySpeaker(audio, order) ==
    /\ spk_calls < MaxCalls
    /\ IdentifySpeakerCall(audio, order)

NextSpk ==
    \E audio \in Audios, order \in KeyOrders(DOMAIN speaker_profiles) :
        IdentifySpeaker(audio, order)

\* C10: when the same voice-feature vector is presented twice in
\* succession, the second presentation creates no new profile and returns
\* the label of the first.
C10_SameVectorSameSpeaker ==
    (/\ spk_prev.called
     /\ spk_prev.features.some
     /\ spk_last.features = spk_prev.features)
        => /\ spk_last.label = spk_prev.label
           /\ spk_last.count_after = spk_last.count_before

\* identify_speaker calls in one behaviour of the many-voices specification
MaxVoiceCalls == 6

\* six voices within the ranges extract_voice_features produces (a
\* fundamental between 50 and 500 Hz); any two differ in the fundamental or
\* in all three formants by a factor of three, so that their similarity is at
\* most 0.515
Voices ==
    <<Features(50, <<300, 900, 2700>>, 2000, MfccLow),
      Features(150, <<300, 900, 2700>>, 2000, MfccLow),
      Features(450, <<300, 900, 2700>>, 2000, MfccLow),
      Features(50, <<900, 2700, 8000>>, 2000, MfccLow),
      Features(150, <<900, 2700, 8000>>, 2000, MfccLow),
      Features(450, <<900, 2700, 8000>>, 2000, MfccLow)>>

\* the voices join in the order of the list: a call presents a voice already
\* profiled or the next one
VoicesAfter(speaker_count) ==
    {Voices[i] : i \in 1..Smaller(speaker_count + 1, Len(Voices))}

NextVoices ==
    /\ spk_calls < MaxVoiceCalls
    /\ \E samples \in AudioLengths,
          features \in VoicesAfter(Cardinality(DOMAIN speaker_profiles)),
          order \in KeyOrders(DOMAIN speaker_profiles) :
           IdentifySpeakerCall([samples |-> samples, features |-> features],
                               order)

\* C38: no two speaker profiles share an id, and no two share the display
\* label that identify_speaker returns as the speaker of a segment.
C38_DistinctIdsAndLabels ==
    \A p, q \in DOMAIN speaker_profiles :
        p # q => /\ speaker_profiles[p].id # speaker_profiles[q].id
                 /\ speaker_profiles[p].name # speaker_profiles[q].name

\* the ids alone are distinct
DistinctIds ==
    \A p, q \in DOMAIN speaker_profiles :
        p # q => speaker_profiles[p].id # speaker_profiles[q].id

(***************************************************************************)
(* Session commands (optimal_realtime_processor.rs)                        *)
(***************************************************************************)
\* OptimalRealtimeProcessor values built in one behaviour
MaxSessions == 3
\* commands issued in one behaviour
MaxCommands == 6

\* how a start can end: no input device (new), the input stream cannot be
\* built, the stream cannot be played, or success
StartOutcomes == {"ok", "no_device", "stream_error", "play_error"}

NoCommand == [name |-> "none", ok |-> TRUE, session |-> 0, n |-> 0]

Command(name, ok, session) ==
    [name |-> name, ok |-> ok, session |-> session, n |-> last_command.n + 1]

\* OptimalRealtimeProcessor::new: flags clear, and LayeredProcessor::new has
\* spawned the two workers
NewProcessor ==
    [is_recording |-> FALSE, is_paused |-> FALSE, is_running |-> FALSE,
     workers |-> TRUE, main_thread |-> FALSE, stats_thread |-> FALSE,
     started |-> FALSE, finalized |-> FALSE]

\* start_recording up to the creation of the input stream
StartFlags(p) ==
    [p EXCEPT !.is_recording = TRUE, !.is_paused = FALSE,
              !.is_running = TRUE]

\* start_recording past stream.play(): the processing threads
StartThreads(p) ==
    [p EXCEPT !.main_thread = TRUE, !.stats_thread = TRUE,
              !.started = TRUE]

StartRecording(p, outcome) ==
    IF outcome = "ok" THEN StartThreads(StartFlags(p)) ELSE StartFlags(p)

PauseRecording(p) == [p EXCEPT !.is_paused = TRUE]

ResumeRecording(p) == [p EXCEPT !.is_paused = FALSE]

StopRecording(p) ==
    [p EXCEPT !.is_recording = FALSE, !.is_paused = FALSE,
              !.is_running = FALSE, !.finalized = TRUE]

\* A stop that leaves the processor in the state.
KeepProcessor(state) == state

\* processor_state.take()
TakeProcessor(state) == None

\* start_optimal_realtime_recording
StartCommand(outcome) ==
    /\ last_command.n < MaxCommands
    /\ Len(sessions) < MaxSessions
    /\ IF outcome = "no_device"
       THEN /\ last_command' = Command("start", FALSE, 0)
            /\ UNCHANGED <<processor_state, sessions>>
       ELSE LET id == Len(sessions) + 1
                p == StartRecording(NewProcessor, outcome)
            IN /\ sessions' = Append(sessions, p)
               /\ processor_state' =
                     IF outcome = "ok" THEN Some(id) ELSE processor_state
               /\ last_command' = Command("start", outcome = "ok", id)
    /\ UNCHANGED <<core_vars, work_vars, org_vars, buf_vars, cap_vars, fn_vars, long_vars>>

\* pause_optimal_realtime_recording
PauseCommand ==
    /\ last_command.n < MaxCommands
    /\ IF processor_state.some
       THEN /\ sessions' = [sessions EXCEPT ![processor_state.val] =
                                PauseRecording(@)]
            /\ last_command' = Command("pause", TRUE, processor_state.val)
       ELSE /\ last_command' = Command("pause", TRUE, 0)
            /\ UNCHANGED sessions
    /\ UNCHANGED <<processor_state, core_vars, work_vars, org_vars, buf_vars, cap_vars, fn_vars, long_vars>>

\* resume_optimal_realtime_recording
ResumeCommand ==
    /\ last_command.n < MaxCommands
    /\ IF processor_state.some
       THEN /\ sessions' = [sessions EXCEPT ![processor_state.val] =
                                ResumeRecording(@)]
            /\ last_command' = Command("resume", TRUE, processor_state.val)
       ELSE /\ last_command' = Command("resume", TRUE, 0)
            /\ UNCHANGED sessions
    /\ UNCHANGED <<processor_state, core_vars, work_vars, org_vars, buf_vars, cap_vars, fn_vars, long_vars>>

\* stop_optimal_realtime_recording
StopCommand ==
    /\ last_command.n < MaxCommands
    /\ IF processor_state.some
       THEN /\ sessions' = [sessions EXCEPT ![processor_state.val] =
                                StopRecording(@)]
            /\ processor_state' = TakeProcessor(processor_state)
            /\ last_command' = Command("stop", TRUE, processor_state.val)
       ELSE /\ last_command' = Command("stop", TRUE, 0)
            /\ UNCHANGED <<processor_state, sessions>>
    /\ UNCHANGED <<core_vars, work_vars, org_vars, buf_vars, cap_vars, fn_vars, long_vars>>

NextCmd ==
    \/ \E outcome \in StartOutcomes : StartCommand(outcome)
    \/ PauseCommand
    \/ ResumeCommand
    \/ StopCommand

\* a session whose start succeeded, that no stop has taken, and that the state
\* no longer holds: a later start has overwritten it
Replaced(id) ==
    /\ sessions[id].started
    /\ ~sessions[id].finalized
    /\ processor_state # Some(id)

\* C39: at most one recording session is active: a session that a later start
\* has replaced in the state has its recording flag clear and neither its
\* workers nor its processing threads running.
C39_ReplacedSessionInactive ==
    \A id \in 1..Len(sessions) :
        Replaced(id) => /\ ~sessions[id].is_recording
                        /\ ~sessions[id].is_running
                        /\ ~sessions[id].main_thread
                        /\ ~sessions[id].stats_thread

\* the state of a session as the commands see it
SessionState(p) ==
    IF p.finalized THEN "Stopped"
    ELSE IF ~p.is_recording THEN "Idle"
    ELSE IF p.is_paused THEN "Paused"
    ELSE "Recording"

SessionEdges ==
    {<<"Recording", "Paused">>, <<"Paused", "Recording">>,
     <<"Recording", "Stopped">>, <<"Paused", "Stopped">>}

\* C17: a session moves only along Recording -> Paused, Paused ->
\* Recording and Recording or Paused -> Stopped (a session enters Recording
\* when start builds it); once it is Stopped no command changes it again.
C17_SessionStateMachine ==
    [][\A id \in 1..Len(sessions) :
          /\ SessionState(sessions'[id]) # SessionState(sessions[id])
                => <<SessionState(sessions[id]), SessionState(sessions'[id])>>
                      \in SessionEdges
          /\ SessionState(sessions[id]) = "Stopped"
                => sessions'[id] = sessions[id]]_vars

C17_Witness ==
    /\ last_command.name \in {"pause", "resume"}
    /\ processor_state = None
    /\ \E id \in 1..Len(sessions) : SessionState(sessions[id]) = "Stopped"

\* C20: when a start command fails, no partial session is left: the
\* recording flag of the processor it built is clear, none of its threads
\* is running, and it is not stored.
C20_NoPartialSession ==
    (last_command.name = "start" /\ ~last_command.ok /\ last_command.session > 0)
        => LET p == sessions[last_command.session]
           IN /\ ~p.is_recording
              /\ ~(p.workers /\ p.is_running)
              /\ ~p.main_thread
              /\ ~p.stats_thread
              /\ processor_state # Some(last_command.session)

(***************************************************************************)
(* One session's threads: the two LayeredProcessor workers, the main       *)
(* processing thread, the stats thread, the command that starts and stops  *)
(* them, and a recognizer of realtime_audio_full.rs on the same context.   *)
(***************************************************************************)
MaxCompleted == 2

Workers == {"fast", "accurate"}

ChannelOf(w) == IF w = "fast" THEN "Fast" ELSE "Accurate"

\* segment lengths in samples: exactly 2 s, and one sample more
SegmentSamples == {FastMaxSeconds * SampleRate, FastMaxSeconds * SampleRate + 1}

\* FastProcessor.max_processing_time, in microseconds
MaxProcessingTimeMs == 150
MaxProcessingTime == MaxProcessingTimeMs * 1000
\* Instant::elapsed of one draft call, in microseconds
ElapsedUs == {150000, 151000}
AsMillis(us) == us \div 1000

ProcessingTask(seg, samples, channel) ==
    [seg |-> seg, samples |-> samples, channel |-> channel]

TranscriptResult(seg, temporary, ms) ==
    [seg |-> seg, is_temporary |-> temporary, processing_time_ms |-> ms]

\* the task receiver lives in the two worker closures
ReceiverAlive == \E w \in Workers : worker_pc[w] # "exited"

\* task_sender.send: Err once the receiver is dropped
Send(channel, task) == IF ReceiverAlive THEN Append(channel, task) ELSE channel

\* SpeechSegment::length_seconds() <= 2.0
FastEligible(samples) == samples <= FastMaxSeconds * SampleRate

\* UnifiedProcessor::process_segment, the two submissions
SubmitSegment(seg, samples) ==
    LET afterFast == IF FastEligible(samples)
                     THEN Send(task_channel,
                               ProcessingTask(seg, samples, "Fast"))
                     ELSE task_channel
    IN Send(afterFast, ProcessingTask(seg, samples, "Accurate"))

Submitted(seg, samples) ==
    [seg      |-> seg,
     samples  |-> samples,
     fast     |-> FastEligible(samples) /\ ReceiverAlive,
     accurate |-> ReceiverAlive]

\* ResultManager::process_result over the drained results, in order.  The
\* results of one segment are taken as related to each other.
RelatedPending(p, seg) == {e \in p : e.seg = seg}

ProcessResults(results) ==
    LET RECURSIVE Go(_)
        Go(i) ==
            IF i = 0 THEN [pending |-> pending_map, committed |-> committed,
                           fast_done |-> fast_done]
            ELSE LET s == Go(i - 1)
                     r == results[i]
                 IN IF r.is_temporary
                    THEN [s EXCEPT
                            !.pending = (s.pending \ RelatedPending(s.pending, r.seg))
                                           \cup {[seg |-> r.seg, age |-> "fresh"]},
                            !.fast_done = @ \cup {r.seg}]
                    ELSE [s EXCEPT
                            !.pending = s.pending \ RelatedPending(s.pending, r.seg),
                            !.committed = @ \cup {<<r.seg, FALSE>>}]
    IN Go(Len(results))

\* ResultManager::cleanup_old_pending
CleanupOldPending(p) == {e \in p : e.age # "old"}

(***************************************************************************)
(* The commands of one session                                             *)
(***************************************************************************)
\* start_recording with a stream that builds and plays
WorkStart ==
    /\ ctl = "created"
    /\ ctl' = "recording"
    /\ is_recording' = TRUE
    /\ is_running' = TRUE
    /\ main_pc' = "loop"
    /\ stats_pc' = "loop"
    /\ UNCHANGED <<worker_pc, worker_task, task_receiver, task_channel,
                   result_channel, engine, legacy_pc, open_segment,
                   n_completed, pending_map, committed, submit_log, accurate_failed, fast_done, finalize_log>>
    /\ UNCHANGED <<core_vars, cmd_vars, org_vars, buf_vars, cap_vars, fn_vars, long_vars>>

\* finalize_recording: the forced segment is printed, the report is emitted
FinalizeRecording ==
    [trailing  |-> IF open_segment THEN Some(n_completed + 1) ELSE None,
     tasks_left |-> Len(task_channel) + Cardinality(engine \cap Workers),
     results_left |-> Len(result_channel),
     in_flight |-> engine \cap Workers,
     report |-> TRUE]

\* stop_recording
WorkStop ==
    /\ ctl = "recording"
    /\ ctl' = "stopped"
    /\ is_recording' = FALSE
    /\ is_running' = FALSE
    /\ finalize_log' = Some(FinalizeRecording)
    /\ open_segment' = FALSE
    /\ UNCHANGED <<worker_pc, worker_task, task_receiver, task_channel,
                   result_channel, engine, main_pc, stats_pc, legacy_pc,
                   n_completed, pending_map, committed, submit_log, accurate_failed, fast_done>>
    /\ UNCHANGED <<core_vars, cmd_vars, org_vars, buf_vars, cap_vars, fn_vars, long_vars>>

(***************************************************************************)
(* LayeredProcessor::start_processing_threads: one worker's loop           *)
(***************************************************************************)
\* while *running.lock().unwrap()
LoopTestIgnoresFlag(flag) == TRUE
LoopTest(flag) == flag

WorkerExit(w) ==
    /\ worker_pc[w] = "loop"
    /\ ~LoopTest(is_running)
    /\ worker_pc' = [worker_pc EXCEPT ![w] = "exited"]
    /\ UNCHANGED <<ctl, is_running, is_recording, worker_task, task_receiver,
                   task_channel, result_channel, engine, main_pc, stats_pc,
                   legacy_pc, open_segment, n_completed, pending_map, committed,
                   submit_log, accurate_failed, fast_done,
                   finalize_log>>
    /\ UNCHANGED <<core_vars, cmd_vars, org_vars, buf_vars, cap_vars, fn_vars, long_vars>>

\* the engine is called for this task: transcribe_draft returns before the
\* call when the segment is longer than 2 s
CallsEngine(w, task) ==
    /\ task.channel = ChannelOf(w)
    /\ w = "fast" => FastEligible(task.samples)

\* the guard of the receiver lock lives to the end of the if-let block
GuardAfterRecv(w) == Some(w)

\* receiver.try_lock(), receiver.try_recv(), and the entry into the call
WorkerTry(w) ==
    /\ worker_pc[w] = "loop"
    /\ LoopTest(is_running)
    /\ IF task_receiver = None /\ task_channel # <<>>
       THEN LET task == Head(task_channel)
            IN /\ task_channel' = Tail(task_channel)
               /\ IF CallsEngine(w, task)
                  THEN /\ worker_pc' = [worker_pc EXCEPT ![w] = "engine"]
                       /\ worker_task' = [worker_task EXCEPT ![w] = Some(task)]
                       /\ task_receiver' = GuardAfterRecv(w)
                       /\ engine' = engine \cup {w}
                  ELSE /\ worker_pc' = [worker_pc EXCEPT ![w] = "loop"]
                       /\ UNCHANGED <<worker_task, task_receiver, engine>>
       ELSE /\ worker_pc' = [worker_pc EXCEPT ![w] = "loop"]
            /\ UNCHANGED <<task_channel, worker_task, task_receiver, engine>>
    /\ UNCHANGED <<ctl, is_running, is_recording, result_channel, main_pc,
                   stats_pc, legacy_pc, open_segment, n_completed, pending_map,
                   committed, submit_log, accurate_failed,
                   fast_done, finalize_log>>
    /\ UNCHANGED <<core_vars, cmd_vars, org_vars, buf_vars, cap_vars, fn_vars, long_vars>>

\* FastProcessor::transcribe_draft after the call: the result is dropped
\* when the call took longer than max_processing_time
DraftAlwaysKept(elapsed) == TRUE
DraftKept(elapsed) == ~(elapsed > MaxProcessingTime)

\* whisper_recognize returns; outcome is "err" or the elapsed time
WorkerReturn(w, ok, elapsed) ==
    /\ worker_pc[w] = "engine"
    /\ LET task == worker_task[w].val
           sent == IF w = "fast" THEN ok /\ DraftKept(elapsed) ELSE ok
           ms   == IF w = "fast" THEN AsMillis(elapsed) ELSE AccurateLatencyMs
       IN /\ result_channel' =
                IF sent
                THEN Append(result_channel,
                            TranscriptResult(task.seg, w = "fast", ms))
                ELSE result_channel
          /\ accurate_failed' = IF w = "accurate" /\ ~ok
                                THEN accurate_failed \cup {task.seg}
                                ELSE accurate_failed
    /\ worker_pc' = [worker_pc EXCEPT ![w] = "loop"]
    /\ worker_task' = [worker_task EXCEPT ![w] = None]
    /\ task_receiver' = IF task_receiver = Some(w) THEN None ELSE task_receiver
    /\ engine' = engine \ {w}
    /\ UNCHANGED <<ctl, is_running, is_recording, task_channel, main_pc,
                   stats_pc, legacy_pc, open_segment, n_completed, pending_map,
                   committed, submit_log, fast_done, finalize_log>>
    /\ UNCHANGED <<core_vars, cmd_vars, org_vars, buf_vars, cap_vars, fn_vars, long_vars>>

WorkerStep(w) ==
    \/ WorkerExit(w)
    \/ WorkerTry(w)
    \/ \E ok \in BOOLEAN, elapsed \in ElapsedUs :
          /\ (w = "accurate" \/ ~ok) => elapsed = 150000
          /\ WorkerReturn(w, ok, elapsed)

(***************************************************************************)
(* start_main_processing_thread                                            *)
(***************************************************************************)
MainExit ==
    /\ main_pc = "loop"
    /\ ~LoopTest(is_recording)
    /\ main_pc' = "exited"
    /\ UNCHANGED <<ctl, is_running, is_recording, worker_pc, worker_task,
                   task_receiver, task_channel, result_channel, engine,
                   stats_pc, legacy_pc, open_segment, n_completed, pending_map,
                   committed, submit_log, accurate_failed,
                   fast_done, finalize_log>>
    /\ UNCHANGED <<core_vars, cmd_vars, org_vars, buf_vars, cap_vars, fn_vars, long_vars>>

\* recv_timeout returned a chunk that add_chunk keeps in the open segment
MainChunkSpeech ==
    /\ main_pc = "loop"
    /\ LoopTest(is_recording)
    /\ main_pc' = "loop"
    /\ open_segment' = TRUE
    /\ UNCHANGED <<ctl, is_running, is_recording, worker_pc, worker_task,
                   task_receiver, task_channel, result_channel, engine,
                   stats_pc, legacy_pc, n_completed, pending_map, committed,
                   submit_log, accurate_failed, fast_done,
                   finalize_log>>
    /\ UNCHANGED <<core_vars, cmd_vars, org_vars, buf_vars, cap_vars, fn_vars, long_vars>>

\* recv_timeout returned a chunk that ends the silence timeout on a segment
\* shorter than the minimum: add_chunk drops it and returns nothing
MainChunkDrops ==
    /\ main_pc = "loop"
    /\ LoopTest(is_recording)
    /\ open_segment
    /\ main_pc' = "loop"
    /\ open_segment' = FALSE
    /\ UNCHANGED <<ctl, is_running, is_recording, worker_pc, worker_task,
                   task_receiver, task_channel, result_channel, engine,
                   stats_pc, legacy_pc, n_completed, pending_map, committed,
                   submit_log, accurate_failed, fast_done, finalize_log>>
    /\ UNCHANGED <<core_vars, cmd_vars, org_vars, buf_vars, cap_vars, fn_vars, long_vars>>

\* recv_timeout returned a chunk that completes the open segment:
\* process_speech_segment
MainChunkCompletes(samples) ==
    /\ main_pc = "loop"
    /\ LoopTest(is_recording)
    /\ open_segment
    /\ n_completed < MaxCompleted
    /\ main_pc' = "loop"
    /\ open_segment' = FALSE
    /\ n_completed' = n_completed + 1
    /\ submit_log' = Some(Submitted(n_completed + 1, samples))
    /\ task_channel' = SubmitSegment(n_completed + 1, samples)
    /\ LET s == ProcessResults(result_channel)
       IN /\ pending_map' = s.pending
          /\ committed' = s.committed
          /\ fast_done' = s.fast_done
    /\ result_channel' = <<>>
    /\ UNCHANGED <<ctl, is_running, is_recording, worker_pc, worker_task,
                   task_receiver, engine, stats_pc, legacy_pc, accurate_failed, finalize_log>>
    /\ UNCHANGED <<core_vars, cmd_vars, org_vars, buf_vars, cap_vars, fn_vars, long_vars>>

\* recv_timeout timed out: cleanup_old_pending
MainTimeout ==
    /\ main_pc = "loop"
    /\ LoopTest(is_recording)
    /\ main_pc' = "loop"
    /\ pending_map' = CleanupOldPending(pending_map)
    /\ UNCHANGED <<ctl, is_running, is_recording, worker_pc, worker_task,
                   task_receiver, task_channel, result_channel, engine,
                   stats_pc, legacy_pc, open_segment, n_completed, committed,
                   submit_log, accurate_failed, fast_done,
                   finalize_log>>
    /\ UNCHANGED <<core_vars, cmd_vars, org_vars, buf_vars, cap_vars, fn_vars, long_vars>>

\* recv_timeout found the sender dropped
MainDisconnected ==
    /\ main_pc = "loop"
    /\ LoopTest(is_recording)
    /\ main_pc' = "exited"
    /\ UNCHANGED <<ctl, is_running, is_recording, worker_pc, worker_task,
                   task_receiver, task_channel, result_channel, engine,
                   stats_pc, legacy_pc, open_segment, n_completed, pending_map,
                   committed, submit_log, accurate_failed,
                   fast_done, finalize_log>>
    /\ UNCHANGED <<core_vars, cmd_vars, org_vars, buf_vars, cap_vars, fn_vars, long_vars>>

MainStep ==
    \/ MainExit
    \/ MainChunkSpeech
    \/ MainChunkDrops
    \/ \E samples \in SegmentSamples : MainChunkCompletes(samples)
    \/ MainTimeout
    \/ MainDisconnected

(***************************************************************************)
(* start_stats_thread                                                      *)
(***************************************************************************)
StatsStep ==
    /\ stats_pc = "loop"
    /\ stats_pc' = IF LoopTest(is_recording) THEN "loop" ELSE "exited"
    /\ UNCHANGED <<ctl, is_running, is_recording, worker_pc, worker_task,
                   task_receiver, task_channel, result_channel, engine,
                   main_pc, legacy_pc, open_segment, n_completed, pending_map,
                   committed, submit_log, accurate_failed,
                   fast_done, finalize_log>>
    /\ UNCHANGED <<core_vars, cmd_vars, org_vars, buf_vars, cap_vars, fn_vars, long_vars>>

(***************************************************************************)
(* realtime_audio_full.rs: recognize_speech_segment on the same context,   *)
(* under the Mutex that start_realtime_recording built around the pointer  *)
(***************************************************************************)
LegacyStep ==
    /\ legacy_pc' = IF legacy_pc = "idle" THEN "engine" ELSE "idle"
    /\ engine' = IF legacy_pc = "idle" THEN engine \cup {"legacy"}
                 ELSE engine \ {"legacy"}
    /\ UNCHANGED <<ctl, is_running, is_recording, worker_pc, worker_task,
                   task_receiver, task_channel, result_channel, main_pc,
                   stats_pc, open_segment, n_completed, pending_map, committed,
                   submit_log, accurate_failed, fast_done,
                   finalize_log>>
    /\ UNCHANGED <<core_vars, cmd_vars, org_vars, buf_vars, cap_vars, fn_vars, long_vars>>

\* a pending result grows older than the cleanup age
Age ==
    /\ \E e \in pending_map :
          /\ e.age = "fresh"
          /\ pending_map' = (pending_map \ {e}) \cup {[e EXCEPT !.age = "old"]}
    /\ UNCHANGED <<ctl, is_running, is_recording, worker_pc, worker_task,
                   task_receiver, task_channel, result_channel, engine,
                   main_pc, stats_pc, legacy_pc, open_segment, n_completed,
                   committed, submit_log, accurate_failed,
                   fast_done, finalize_log>>
    /\ UNCHANGED <<core_vars, cmd_vars, org_vars, buf_vars, cap_vars, fn_vars, long_vars>>

\* the threads and commands of the session
NextSession ==
    \/ WorkStart
    \/ WorkStop
    \/ \E w \in Workers : WorkerStep(w)
    \/ MainStep
    \/ StatsStep
    \/ Age

\* the session next to the other recognizer
NextWork ==
    \/ NextSession
    \/ LegacyStep

(***************************************************************************)
(* Claims about the threads (checked under SpecWork and SpecWorkFair)      *)
(***************************************************************************)
\* C11: process_segment submits every completed segment to the accurate
\* path whatever its length, and to the fast path exactly when it is at
\* most 2 s long.
C11_RoutedByDuration ==
    submit_log.some
        => /\ submit_log.val.accurate
           /\ submit_log.val.fast
                 <=> submit_log.val.samples <= FastMaxSeconds * SampleRate

\* C12: every temporary result on the result channel has a processing time
\* of at most 150 ms: a draft that took longer was discarded.
C12_NoStaleDraft ==
    \A i \in 1..Len(result_channel) :
        result_channel[i].is_temporary
            => result_channel[i].processing_time_ms <= MaxProcessingTimeMs

C12_Witness ==
    \E i \in 1..Len(result_channel) :
          /\ result_channel[i].is_temporary
          /\ result_channel[i].processing_time_ms = MaxProcessingTimeMs

\* C13: at no time are two whisper_full calls on the one engine context in
\* flight, whichever recognizers issue them.
C13_EngineCallsSerialized == Cardinality(engine) <= 1

\* C14: no thread holds a lock that guards shared pipeline state (here the
\* task receiver) while its engine call is executing.
C14_NoLockAcrossEngineCall ==
    \A w \in engine \cap Workers : task_receiver # Some(w)

AllExited ==
    /\ \A w \in Workers : worker_pc[w] = "exited"
    /\ main_pc = "exited"
    /\ stats_pc = "exited"

\* C15: once stop has cleared the flags, every loop (fast worker, accurate
\* worker, main thread, stats thread) eventually exits; a thread exits only
\* from the test of its loop with its flag clear, so a call in flight runs
\* to completion first and nothing terminates a thread from outside.
C15_CooperativeExit ==
    /\ (ctl = "stopped") ~> AllExited
    /\ [][/\ \A w \in Workers :
               (worker_pc[w] # "exited" /\ worker_pc'[w] = "exited")
                  => (worker_pc[w] = "loop" /\ ~is_running /\ w \notin engine)
          /\ (stats_pc # "exited" /\ stats_pc' = "exited")
                  => (stats_pc = "loop" /\ ~is_recording)
          /\ (main_pc # "exited" /\ main_pc' = "exited")
                  => main_pc = "loop"]_vars

C15_Witness ==
    /\ ctl = "stopped"
    /\ AllExited
    /\ finalize_log.val.in_flight # {}
    /\ Len(result_channel) > finalize_log.val.results_left

\* C16: stopping flushes: the trailing segment that force_complete_current
\* returned is submitted for recognition, and no result is left in the
\* pipeline when the final report is emitted.
C16_FinalFlush ==
    finalize_log.some
        => /\ finalize_log.val.report
           /\ finalize_log.val.trailing.some
                 => /\ submit_log.some
                    /\ submit_log.val.seg = finalize_log.val.trailing.val
           /\ finalize_log.val.results_left = 0
           /\ finalize_log.val.tasks_left = 0

\* C18: every pending temporary result older than the cleanup age whose
\* final result will not come (the accurate call failed) is eventually
\* purged while the session keeps recording, whatever the input does (a
\* session that stops gives its manager up).
C18_OldPendingPurged ==
    \A s \in 1..MaxCompleted :
        ([seg |-> s, age |-> "old"] \in pending_map /\ s \in accurate_failed)
            ~> \/ \A e \in pending_map : e.seg # s
               \/ ctl = "stopped"
               \/ main_pc = "exited"

\* C19: when the accurate call of a segment fails and its fast result
\* reached the manager, the segment is eventually committed as
\* non-temporary.
C19_FastPromoted ==
    \A s \in 1..MaxCompleted :
        (s \in accurate_failed /\ s \in fast_done) ~> (<<s, FALSE>> \in committed)

\* a worker took the head of the task queue in this step
Dequeued == Len(task_channel') < Len(task_channel)

\* C26: a task taken from the queue is executed by the processor of its own
\* channel: no worker dequeues a task and drops it.
C26_DequeuedTaskExecuted ==
    [][Dequeued =>
          \E w \in Workers :
              /\ Head(task_channel).channel = ChannelOf(w)
              /\ worker_pc[w] = "loop"
              /\ worker_pc'[w] = "engine"
              /\ worker_task'[w] = Some(Head(task_channel))]_vars

\* C27: after new and start both worker loops are alive until stop.
C27_WorkersAliveUntilStop ==
    ctl = "recording" => \A w \in Workers : worker_pc[w] # "exited"

\* C28: after start_recording has returned the main processing loop does
\* not end before stop_recording.
C28_MainLoopUntilStop ==
    ctl = "recording" => main_pc = "loop"

\* C29: a result sent on the result channel is eventually drained and
\* passed to process_result, also when no further segment completes (or the
\* recording is stopped or the main loop has ended first).
C29_ResultsReachManager ==
    (result_channel # <<>>)
        ~> (result_channel = <<>> \/ ctl = "stopped" \/ main_pc = "exited")

\* process_speech_segment: one call of process_with_context per drained
\* result, each with the audio of the segment that has just completed
ProcessWithContext(results, segment) ==
    [i \in 1..Len(results) |-> [result |-> results[i].seg, audio |-> segment]]

\* C30: the audio handed to process_with_context with a result is the audio
\* of the segment the result was recognised from.
C30_AudioOfItsSegment ==
    [][n_completed' = n_completed + 1 =>
          LET calls == ProcessWithContext(result_channel, n_completed')
          IN \A i \in 1..Len(calls) : calls[i].audio = calls[i].result]_vars

(***************************************************************************)
(* SegmentOrganizer under the commits of ResultManager::process_result and *)
(* the manual corrections of update_segment                                *)
(***************************************************************************)
MaxOrgOps == 3
\* time between the timestamps of two committed results (ms)
OrgNearGap == 500
OrgMidGap == 2400
OrgGaps == {OrgNearGap, OrgMidGap}
\* how long before its accurate result a duplicate fast result was stamped
OrgDuplicateLead == 300
OrgTexts == {<<"a", "b", "c">>, <<"a", "b", "c", "d">>}
OrgSpeaker == Some("Speaker_0")

NoOperation ==
    [op |-> "none", id |-> <<>>, text |-> <<>>, success |-> FALSE,
     event |-> None, segment |-> None, n |-> 0]

\* the results process_result hands to add_segment: a pending fast result,
\* an accurate result, or the merge of an accurate result with its duplicate
\* fast result
OrgResults(text, ts) ==
    LET accurate == AccurateResult(text, OrgSpeaker, ts, AccurateLatencyMs)
        fast == FastResult(text, OrgSpeaker, ts - OrgDuplicateLead)
    IN {FastResult(text, OrgSpeaker, ts), accurate}
          \cup (IF IsDuplicate(accurate, fast)
                THEN {MergeGroup(<<accurate, fast>>)}
                ELSE {})

Window(result) ==
    <<result.timestamp, result.timestamp + result.processing_time_ms>>

\* the windows of the results a committed result was formed from
Constituents(result, text, ts) ==
    IF SourceOf(result) = "Merged"
    THEN <<Window(FastResult(text, OrgSpeaker, ts - OrgDuplicateLead)),
           Window(AccurateResult(text, OrgSpeaker, ts, AccurateLatencyMs))>>
    ELSE <<Window(result)>>

\* ResultManager::process_result, the commit of one result
OrgAddSegment(text, dt) ==
    /\ org_last.n < MaxOrgOps
    /\ LET ts == org_now + dt
       IN \E result \in OrgResults(text, ts) :
            LET n == Len(org_segments)
                segment == NewManagedSegment(result, SourceOf(result))
                merges == n > 0 /\ ShouldMergeWithPrevious(segment,
                                                           org_segments[n])
                out == AddSegment(org_segments, result, SourceOf(result))
                parts == Constituents(result, text, ts)
            IN /\ org_segments' = out.segments
               /\ org_parts' =
                     IF merges
                     THEN [org_parts EXCEPT ![n] = org_parts[n] \o parts]
                     ELSE PushBounded(org_parts, parts)
               /\ org_now' = ts
               /\ org_last' = [op |-> "add", id |-> out.id, text |-> text,
                               success |-> TRUE, event |-> None,
                               segment |-> Some(segment),
                               n |-> org_last.n + 1]
    /\ UNCHANGED <<core_vars, cmd_vars, work_vars, buf_vars, cap_vars, fn_vars, long_vars>>

TextCorrection(original, corrected, source) ==
    [original |-> original, corrected |-> corrected,
     reason |-> IF source = "UserCorrected" THEN "UserEdit"
                ELSE "ContextualCorrection",
     confidence |-> <<9, 10>>]

\* the first stored segment with this id, 0 when there is none
FirstWithId(segs, segment_id) ==
    IF \E i \in 1..Len(segs) : segs[i].id = segment_id
    THEN CHOOSE i \in 1..Len(segs) :
            /\ segs[i].id = segment_id
            /\ \A j \in 1..(i - 1) : segs[j].id # segment_id
    ELSE 0

UpdateLeavesDraft(segment, new_text, source) ==
    [segment EXCEPT
        !.corrections = Append(@, TextCorrection(segment.text, new_text, source)),
        !.text = new_text,
        !.source = source]

\* SegmentOrganizer::update_segment on the segment found
Update(segment, new_text, source) ==
    [segment EXCEPT
        !.corrections = Append(@, TextCorrection(segment.text, new_text, source)),
        !.text = new_text,
        !.source = source,
        !.is_final = TRUE]

UpdateSegment(segs, segment_id, new_text, source) ==
    LET i == FirstWithId(segs, segment_id)
    IN IF i = 0 THEN [segments |-> segs, success |-> FALSE]
       ELSE [segments |-> [segs EXCEPT ![i] = Update(segs[i], new_text, source)],
             success |-> TRUE]

SegmentUpdated(segment_id, new_text) ==
    [name |-> "segment_updated", segment_id |-> segment_id,
     new_text |-> new_text]

\* an id no stored segment has
UnknownId == <<"seg", "0", "fast", "0">>

\* OptimalRealtimeProcessor::update_segment
OrgUpdateSegment(segment_id, new_text) ==
    /\ org_last.n < MaxOrgOps
    /\ LET out == UpdateSegment(org_segments, segment_id, new_text,
                                "UserCorrected")
       IN /\ org_segments' = out.segments
          /\ org_last' = [op |-> "update", id |-> segment_id,
                          text |-> new_text, success |-> out.success,
                          event |-> IF out.success
                                    THEN Some(SegmentUpdated(segment_id,
                                                             new_text))
                                    ELSE None,
                          segment |-> None,
                          n |-> org_last.n + 1]
    /\ UNCHANGED <<org_parts, org_now>>
    /\ UNCHANGED <<core_vars, cmd_vars, work_vars, buf_vars, cap_vars, fn_vars, long_vars>>

NextOrg ==
    \/ \E text \in OrgTexts, dt \in OrgGaps : OrgAddSegment(text, dt)
    \/ \E segment_id \in {org_segments[i].id : i \in 1..Len(org_segments)}
                            \cup {UnknownId},
          new_text \in OrgTexts :
          OrgUpdateSegment(segment_id, new_text)

(***************************************************************************)
(* Claims about the organizer (checked under SpecOrg)                      *)
(***************************************************************************)
\* C21: update_segment(id, new_text) on a stored segment sets its text to
\* new_text, tags it UserCorrected, makes it final, appends the edit to its
\* corrections and produces a segment_updated event; every other stored
\* segment stays as it was.
C21_UpdateSegment ==
    [][(/\ org_last'.n = org_last.n + 1
        /\ org_last'.op = "update"
        /\ FirstWithId(org_segments, org_last'.id) # 0)
       => LET i == FirstWithId(org_segments, org_last'.id)
              old == org_segments[i]
              new == org_segments'[i]
          IN /\ Len(org_segments') = Len(org_segments)
             /\ new.text = org_last'.text
             /\ new.source = "UserCorrected"
             /\ new.is_final
             /\ new.corrections =
                   Append(old.corrections,
                          [original |-> old.text, corrected |-> org_last'.text,
                           reason |-> "UserEdit", confidence |-> <<9, 10>>])
             /\ new.id = old.id
             /\ org_last'.success
             /\ org_last'.event =
                   Some([name |-> "segment_updated",
                         segment_id |-> org_last'.id,
                         new_text |-> org_last'.text])
             /\ \A j \in 1..Len(org_segments) :
                   j # i => org_segments'[j] = org_segments[j]]_vars

\* a draft segment corrected by hand while another segment is stored
C21_Witness ==
    /\ org_last.op = "update"
    /\ org_last.success
    /\ Len(org_segments) = 2
    /\ \E i \in 1..2 :
          /\ org_segments[i].id = org_last.id
          /\ org_segments[i].source = "UserCorrected"
          /\ org_segments[i].corrections # <<>>
          /\ org_segments[i].corrections[1].original # org_last.text

WindowGap(a, b) ==
    IF b[1] > a[2] THEN b[1] - a[2]
    ELSE IF a[1] > b[2] THEN a[1] - b[2]
    ELSE 0

\* C22: every stored segment with source Merged was formed from results
\* whose time windows overlap or lie within the dedup time window of each
\* other, whichever merge produced it.
C22_MergedWithinWindow ==
    \A i \in 1..Len(org_segments) :
        org_segments[i].source = "Merged"
            => \A k \in 1..(Len(org_parts[i]) - 1) :
                  WindowGap(org_parts[i][k], org_parts[i][k + 1])
                      <= DedupTimeWindowMs

Later(a, b) == IF a > b THEN a ELSE b

\* C34: add_segment merges the new segment into the last stored one exactly
\* when the gap to its end is below 3 s, the speakers match and it is not
\* final, and appends it otherwise; a merge joins the texts, extends the end
\* time, sets the confidence to the average weighted by the text lengths,
\* joins the corrections and leaves the number of stored segments as it was.
C34_MergeIntoPrevious ==
    [][(org_last'.n = org_last.n + 1 /\ org_last'.op = "add")
       => LET n == Len(org_segments)
              new == org_last'.segment.val
              last == org_segments[n]
              gap == IF new.start_time > last.end_time
                     THEN new.start_time - last.end_time ELSE 0
              merges == /\ n > 0
                        /\ gap < AutoParagraphThresholdMs
                        /\ new.speaker = last.speaker
                        /\ ~last.is_final
              weight == TextLen(last.text) + TextLen(new.text)
          IN IF merges
             THEN /\ Len(org_segments') = n
                  /\ \A j \in 1..(n - 1) : org_segments'[j] = org_segments[j]
                  /\ org_segments'[n].id = last.id
                  /\ org_segments'[n].text = last.text \o new.text
                  /\ org_segments'[n].start_time = last.start_time
                  /\ org_segments'[n].end_time
                        = Later(last.end_time, new.end_time)
                  /\ weight > 0 =>
                        RNorm(RScale(org_segments'[n].confidence, weight))
                          = RNorm(RAdd(RNorm(RScale(last.confidence,
                                                    TextLen(last.text))),
                                       RNorm(RScale(new.confidence,
                                                    TextLen(new.text)))))
                  /\ org_segments'[n].corrections
                        = last.corrections \o new.corrections
             ELSE /\ Len(org_segments') >= 1
                  /\ org_segments'[Len(org_segments')] = new]_vars

(***************************************************************************)
(* ConversationBuffer under process_with_context, with the wall clock      *)
(***************************************************************************)
MaxBufOps == 6
\* ConversationBuffer::new(max_segments, max_age): the capacity of the
\* model, and the age of ContextAwareProcessor::new (300 s)
BufMaxSegments == 3
BufMaxAgeMs == 300000
\* the wall clock when the buffer is built, and how it moves between calls:
\* forward, or back when the system time is set
BufEpoch == 1000000
BufShortStep == 100000
BufLongStep == 250000
BufStepBack == 200000
ClockSteps == {BufShortStep, BufLongStep, 0 - BufStepBack}

ConversationSegment(ts) == [timestamp |-> ts, segment_id |-> FastId(ts)]

\* ConversationBuffer::cleanup_old_segments: pop the front while it is old
CleanupOldSegments(segs, cutoff_time) ==
    LET RECURSIVE Go(_)
        Go(s) == IF s # <<>> /\ Head(s).timestamp < cutoff_time
                 THEN Go(Tail(s))
                 ELSE s
    IN Go(segs)

\* ConversationBuffer::add_segment
BufferAdd(segs, segment, cutoff_time) ==
    LET kept == CleanupOldSegments(segs, cutoff_time)
    IN IF Len(kept) >= BufMaxSegments
       THEN Append(Tail(kept), segment)
       ELSE Append(kept, segment)

\* ContextAwareProcessor::process_with_context, step 4: the result, stamped
\* by the recognizer at the present clock, is added
ConversationAdd ==
    /\ buf_last.n < MaxBufOps
    /\ LET cutoff_time == buf_clock - BufMaxAgeMs
       IN /\ buf_segments' =
                BufferAdd(buf_segments, ConversationSegment(buf_clock),
                          cutoff_time)
          /\ buf_last' = [cutoff |-> cutoff_time, before |-> buf_segments,
                          n |-> buf_last.n + 1]
    /\ UNCHANGED buf_clock
    /\ UNCHANGED <<core_vars, cmd_vars, work_vars, org_vars, cap_vars, fn_vars, long_vars>>

\* the wall clock between two calls
ClockStep(d) ==
    /\ buf_last.n < MaxBufOps
    /\ buf_clock + d >= BufMaxAgeMs
    /\ buf_clock' = buf_clock + d
    /\ buf_last' = [buf_last EXCEPT !.n = @ + 1]
    /\ UNCHANGED buf_segments
    /\ UNCHANGED <<core_vars, cmd_vars, work_vars, org_vars, cap_vars, fn_vars, long_vars>>

NextBuf ==
    \/ ConversationAdd
    \/ \E d \in ClockSteps : ClockStep(d)

\* C23: right after add_segment the buffer holds at most max_segments
\* entries, and no entry stored before the call that is older than max_age
\* is left, whatever the order of the stored timestamps.
C23_BoundedAndFresh ==
    /\ Len(buf_segments) <= BufMaxSegments
    /\ (buf_last.n > 0 /\ buf_segments # <<>>
        /\ buf_clock - BufMaxAgeMs = buf_last.cutoff)
          => \A i \in 1..(Len(buf_segments) - 1) :
                ~(buf_segments[i].timestamp < buf_last.cutoff)

(***************************************************************************)
(* Raw audio between the capture callback and recognition                  *)
(***************************************************************************)
MaxCallbacks == 4
\* samples one callback delivers
CapSmallChunk == 50000
CapLargeChunk == 90000
CallbackSizes == {CapSmallChunk, CapLargeChunk}
\* 16000 * 10: the size both buffers are trimmed to
RingSamples == 160000

\* a Vec<f32> of consecutive captured samples: the index of its first sample
\* and its length
EmptyRun == [first |-> 0, len |-> 0]

\* Vec::extend_from_slice of the n samples captured after sample `from`
Extend(run, from, n) ==
    IF run.len = 0 THEN [first |-> from, len |-> n]
    ELSE [run EXCEPT !.len = @ + n]

\* if len > 16000 * 10 { drain(..len - 16000 * 10) }
Trim(run) ==
    IF run.len > RingSamples
    THEN [first |-> run.first + (run.len - RingSamples), len |-> RingSamples]
    ELSE run

\* realtime_audio.rs, the input callback while recording
CaptureCallback(n) ==
    /\ n_callbacks < MaxCallbacks
    /\ n_callbacks' = n_callbacks + 1
    /\ IF ~cap_paused
       THEN /\ audio_buffer' = Trim(Extend(audio_buffer, cap_captured, n))
            /\ cap_captured' = cap_captured + n
       ELSE UNCHANGED <<audio_buffer, cap_captured>>
    /\ UNCHANGED <<cap_paused, audio_channel, continuous_buffer, full_captured,
                   audio_data>>
    /\ UNCHANGED <<core_vars, cmd_vars, work_vars, org_vars, buf_vars, fn_vars, long_vars>>

\* realtime_audio.rs, pause_recording / resume_recording
TogglePause ==
    /\ n_callbacks < MaxCallbacks
    /\ cap_paused' = ~cap_paused
    /\ UNCHANGED <<audio_buffer, cap_captured, audio_channel, continuous_buffer,
                   full_captured, audio_data, n_callbacks>>
    /\ UNCHANGED <<core_vars, cmd_vars, work_vars, org_vars, buf_vars, fn_vars, long_vars>>

\* realtime_audio_full.rs, the input callback while recording: the chunk is
\* appended to the recording and sent to the processing thread
FullCaptureCallback(n) ==
    /\ n_callbacks < MaxCallbacks
    /\ n_callbacks' = n_callbacks + 1
    /\ IF ~cap_paused
       THEN /\ audio_data' = Extend(audio_data, full_captured, n)
            /\ audio_channel' =
                  Append(audio_channel, [first |-> full_captured, len |-> n])
            /\ full_captured' = full_captured + n
       ELSE UNCHANGED <<audio_data, audio_channel, full_captured>>
    /\ UNCHANGED <<audio_buffer, cap_captured, cap_paused, continuous_buffer>>
    /\ UNCHANGED <<core_vars, cmd_vars, work_vars, org_vars, buf_vars, fn_vars, long_vars>>

\* realtime_audio_full.rs, the processing thread: recv_timeout returns a
\* chunk, AudioProcessor::process_audio_chunk appends it and trims
FullProcessChunk ==
    /\ audio_channel # <<>>
    /\ continuous_buffer' =
          Trim(Extend(continuous_buffer, Head(audio_channel).first,
                      Head(audio_channel).len))
    /\ audio_channel' = Tail(audio_channel)
    /\ UNCHANGED <<audio_buffer, cap_captured, cap_paused, full_captured,
                   audio_data, n_callbacks>>
    /\ UNCHANGED <<core_vars, cmd_vars, work_vars, org_vars, buf_vars, fn_vars, long_vars>>

NextCap ==
    \/ \E n \in CallbackSizes : CaptureCallback(n)
    \/ TogglePause
    \/ \E n \in CallbackSizes : FullCaptureCallback(n)
    \/ FullProcessChunk

\* the samples held for the processing thread of realtime_audio_full.rs
FullRetained ==
    continuous_buffer.len
      + SeqSum([i \in 1..Len(audio_channel) |-> audio_channel[i].len])

\* realtime_audio.rs keeps its bound: the buffer is trimmed in the callback
AudioBufferBounded ==
    /\ audio_buffer.len <= RingSamples
    /\ audio_buffer.len > 0
          => audio_buffer.first + audio_buffer.len = cap_captured

\* C24: the raw audio kept after a capture callback is at most 160000
\* samples, the most recently captured ones: older samples are dropped
\* rather than queued.
C24_MostRecentTenSeconds ==
    /\ AudioBufferBounded
    /\ continuous_buffer.len <= RingSamples
    /\ FullRetained <= RingSamples

(***************************************************************************)
(* Long-audio tasks (long_audio.rs)                                        *)
(***************************************************************************)
\* segments of the task
MaxLaSegments == 3
\* max_workers: one less than the cores, between 1 and 8
LaWorkerCount == 2
\* start_task calls in one behaviour
MaxStarts == 1

LaWorkers == 1..LaWorkerCount

NoTask ==
    [status |-> "None", total_segments |-> 0, completed_segments |-> 0,
     failed_segments |-> 0, segments |-> <<>>]

NotSpawned == [spawned |-> FALSE, current_segment |-> None]

Message(kind, segment_id) == [kind |-> kind, segment_id |-> segment_id]

\* create_task: the segments of the file, all Pending
CreateTask(n) ==
    /\ la_task = NoTask
    /\ la_task' = [status |-> "Preparing", total_segments |-> n,
                   completed_segments |-> 0, failed_segments |-> 0,
                   segments |-> [i \in 1..n |-> "Pending"]]
    /\ UNCHANGED <<la_channel, la_workers, la_listeners, la_starts>>
    /\ UNCHANGED <<core_vars, cmd_vars, work_vars, org_vars, buf_vars, cap_vars,
                   fn_vars>>

\* one ProcessSegment message for every Pending segment, in order
DispatchSegments(segs) ==
    LET RECURSIVE Go(_)
        Go(i) ==
            IF i = 0 THEN <<>>
            ELSE IF segs[i] = "Pending"
                 THEN Append(Go(i - 1), Message("ProcessSegment", i))
                 ELSE Go(i - 1)
    IN Go(Len(segs))

\* start_workers: every worker not yet running is spawned
StartWorkers(workers) ==
    [w \in LaWorkers |->
        IF workers[w].spawned THEN workers[w]
        ELSE [spawned |-> TRUE, current_segment |-> None]]

\* start_task: the task is Processing, the workers run, the Pending segments
\* are sent and a result listener is spawned
StartTask ==
    /\ la_starts < MaxStarts
    /\ la_task # NoTask
    /\ la_starts' = la_starts + 1
    /\ la_task' = [la_task EXCEPT !.status = "Processing"]
    /\ la_workers' = StartWorkers(la_workers)
    /\ la_channel' = la_channel \o DispatchSegments(la_task.segments)
    /\ la_listeners' = la_listeners + 1
    /\ UNCHANGED <<core_vars, cmd_vars, work_vars, org_vars, buf_vars, cap_vars,
                   fn_vars>>

\* the worker loop at try_recv: a ProcessSegment message is taken up, any
\* other message falls to the last arm of the match
WorkerReceive(w) ==
    /\ la_workers[w].spawned
    /\ ~la_workers[w].current_segment.some
    /\ la_channel # <<>>
    /\ la_channel' = Tail(la_channel)
    /\ la_workers' =
          IF Head(la_channel).kind = "ProcessSegment"
          THEN [la_workers EXCEPT ![w].current_segment =
                                      Some(Head(la_channel).segment_id)]
          ELSE la_workers
    /\ UNCHANGED <<la_task, la_listeners, la_starts>>
    /\ UNCHANGED <<core_vars, cmd_vars, work_vars, org_vars, buf_vars, cap_vars,
                   fn_vars>>

\* process_audio_segment has returned: the result goes to segment_tx
WorkerFinish(w, ok) ==
    /\ la_workers[w].current_segment.some
    /\ la_channel' =
          Append(la_channel,
                 Message(IF ok THEN "SegmentCompleted" ELSE "SegmentFailed",
                         la_workers[w].current_segment.val))
    /\ la_workers' = [la_workers EXCEPT ![w].current_segment = None]
    /\ UNCHANGED <<la_task, la_listeners, la_starts>>
    /\ UNCHANGED <<core_vars, cmd_vars, work_vars, org_vars, buf_vars, cap_vars,
                   fn_vars>>

\* the listener on SegmentCompleted
SegmentCompleted(task, segment_id) ==
    LET counted == [task EXCEPT !.segments[segment_id] = "Completed",
                                !.completed_segments = @ + 1]
    IN IF counted.completed_segments = counted.total_segments
       THEN [counted EXCEPT !.status = "Completed"]
       ELSE counted

\* the listener on SegmentFailed
SegmentFailed(task, segment_id) ==
    [task EXCEPT !.segments[segment_id] = "Failed",
                 !.failed_segments = @ + 1]

\* a result listener at try_recv: it leaves its loop when the task is
\* complete
ListenerReceive ==
    /\ la_listeners > 0
    /\ la_channel # <<>>
    /\ la_channel' = Tail(la_channel)
    /\ LET msg == Head(la_channel)
       IN IF msg.kind = "SegmentCompleted"
          THEN /\ la_task' = SegmentCompleted(la_task, msg.segment_id)
               /\ la_listeners' =
                     IF la_task'.completed_segments = la_task'.total_segments
                     THEN la_listeners - 1 ELSE la_listeners
          ELSE IF msg.kind = "SegmentFailed"
          THEN /\ la_task' = SegmentFailed(la_task, msg.segment_id)
               /\ UNCHANGED la_listeners
          ELSE UNCHANGED <<la_task, la_listeners>>
    /\ UNCHANGED <<la_workers, la_starts>>
    /\ UNCHANGED <<core_vars, cmd_vars, work_vars, org_vars, buf_vars, cap_vars,
                   fn_vars>>

NextLong ==
    \/ \E n \in 1..MaxLaSegments : CreateTask(n)
    \/ StartTask
    \/ \E w \in LaWorkers : WorkerReceive(w)
    \/ \E w \in LaWorkers, ok \in BOOLEAN : WorkerFinish(w, ok)
    \/ ListenerReceive

Finished(task) ==
    \A i \in 1..Len(task.segments) :
        task.segments[i] \in {"Completed", "Failed"}

AllCompleted(task) ==
    \A i \in 1..Len(task.segments) : task.segments[i] = "Completed"

\* C40: every segment dispatched for a started task eventually reaches
\* Completed or Failed, and the task reaches Completed once all its segments
\* completed.
C40_DispatchedSegmentsFinish ==
    /\ (la_task.status = "Processing") ~> Finished(la_task)
    /\ (la_task.status = "Processing" /\ AllCompleted(la_task))
          ~> (la_task.status = "Completed")

(***************************************************************************)
(* Specifications                                                          *)
(***************************************************************************)
\* the state after construction: SmartAudioBuffer::new, ResultManager::new,
\* RealtimeSpeakerDiarization::new, and no merge under way
Init ==
    /\ history_window = <<>>
    /\ speech_probability = <<0, 1>>
    /\ current_segment = None
    /\ silence_duration = 0
    /\ last_speech_time = None
    /\ now = 0
    /\ n_chunks = 0
    /\ n_segments = 0
    /\ emitted = <<>>
    /\ ever_speech = FALSE
    /\ task_queue = <<>>
    /\ pending_results = <<>>
    /\ segments = <<>>
    /\ rm_now = 0
    /\ fast_seen = [s \in SpeechSegments |-> None]
    /\ acc_seen = {}
    /\ last_call = [final |-> FALSE, seg |-> 0, fast_first |-> FALSE,
                    commits |-> 0, sources |-> {}, updated |-> <<>>]
    /\ n_evicted = 0
    /\ dd_inputs = <<>>
    /\ dd_stage = "idle"
    /\ dd_results = <<>>
    /\ dd_first = <<>>
    /\ dd_second = <<>>
    /\ speaker_profiles = <<>>
    /\ current_speaker = None
    /\ feature_history = <<>>
    /\ spk_calls = 0
    /\ spk_prev = NoCall
    /\ spk_last = NoCall
    /\ processor_state = None
    /\ sessions = <<>>
    /\ last_command = NoCommand
    /\ ctl = "created"
    /\ is_running = FALSE
    /\ is_recording = FALSE
    /\ worker_pc = [w \in Workers |-> "loop"]
    /\ worker_task = [w \in Workers |-> None]
    /\ task_receiver = None
    /\ task_channel = <<>>
    /\ result_channel = <<>>
    /\ engine = {}
    /\ main_pc = "none"
    /\ stats_pc = "none"
    /\ legacy_pc = "idle"
    /\ open_segment = FALSE
    /\ n_completed = 0
    /\ pending_map = {}
    /\ committed = {}
    /\ submit_log = None
    /\ accurate_failed = {}
    /\ fast_done = {}
    /\ finalize_log = None
    /\ org_segments = <<>>
    /\ org_parts = <<>>
    /\ org_now = 0
    /\ org_last = NoOperation
    /\ buf_segments = <<>>
    /\ buf_clock = BufEpoch
    /\ buf_last = [cutoff |-> 0, before |-> <<>>, n |-> 0]
    /\ audio_buffer = EmptyRun
    /\ cap_captured = 0
    /\ cap_paused = FALSE
    /\ audio_channel = <<>>
    /\ continuous_buffer = EmptyRun
    /\ full_captured = 0
    /\ audio_data = EmptyRun
    /\ n_callbacks = 0
    /\ dup_call = None
    /\ split_call = None
    /\ ctx_call = None
    /\ la_task = NoTask
    /\ la_channel = <<>>
    /\ la_workers = [w \in LaWorkers |-> NotSpawned]
    /\ la_listeners = 0
    /\ la_starts = 0

\* the same state, with the arguments of the first merge drawn
InitDedup ==
    /\ history_window = <<>>
    /\ speech_probability = <<0, 1>>
    /\ current_segment = None
    /\ silence_duration = 0
    /\ last_speech_time = None
    /\ now = 0
    /\ n_chunks = 0
    /\ n_segments = 0
    /\ emitted = <<>>
    /\ ever_speech = FALSE
    /\ task_queue = <<>>
    /\ pending_results = <<>>
    /\ segments = <<>>
    /\ rm_now = 0
    /\ fast_seen = [s \in SpeechSegments |-> None]
    /\ acc_seen = {}
    /\ last_call = [final |-> FALSE, seg |-> 0, fast_first |-> FALSE,
                    commits |-> 0, sources |-> {}, updated |-> <<>>]
    /\ n_evicted = 0
    /\ dd_inputs \in
          {<<WithConfidence(a, ca), WithConfidence(b, cb)>>
              : a \in DedupInputs, b \in DedupInputs,
                ca \in DedupConfidences, cb \in DedupConfidences}
    /\ dd_stage = "input"
    /\ dd_results = <<>>
    /\ dd_first = <<>>
    /\ dd_second = <<>>
    /\ speaker_profiles = <<>>
    /\ current_speaker = None
    /\ feature_history = <<>>
    /\ spk_calls = 0
    /\ spk_prev = NoCall
    /\ spk_last = NoCall
    /\ processor_state = None
    /\ sessions = <<>>
    /\ last_command = NoCommand
    /\ ctl = "created"
    /\ is_running = FALSE
    /\ is_recording = FALSE
    /\ worker_pc = [w \in Workers |-> "loop"]
    /\ worker_task = [w \in Workers |-> None]
    /\ task_receiver = None
    /\ task_channel = <<>>
    /\ result_channel = <<>>
    /\ engine = {}
    /\ main_pc = "none"
    /\ stats_pc = "none"
    /\ legacy_pc = "idle"
    /\ open_segment = FALSE
    /\ n_completed = 0
    /\ pending_map = {}
    /\ committed = {}
    /\ submit_log = None
    /\ accurate_failed = {}
    /\ fast_done = {}
    /\ finalize_log = None
    /\ org_segments = <<>>
    /\ org_parts = <<>>
    /\ org_now = 0
    /\ org_last = NoOperation
    /\ buf_segments = <<>>
    /\ buf_clock = BufEpoch
    /\ buf_last = [cutoff |-> 0, before |-> <<>>, n |-> 0]
    /\ audio_buffer = EmptyRun
    /\ cap_captured = 0
    /\ cap_paused = FALSE
    /\ audio_channel = <<>>
    /\ continuous_buffer = EmptyRun
    /\ full_captured = 0
    /\ audio_data = EmptyRun
    /\ n_callbacks = 0
    /\ dup_call = None
    /\ split_call = None
    /\ ctx_call = None
    /\ la_task = NoTask
    /\ la_channel = <<>>
    /\ la_workers = [w \in LaWorkers |-> NotSpawned]
    /\ la_listeners = 0
    /\ la_starts = 0

SpecSplit == Init /\ [][NextSplit]_vars

\* the tokio scheduler runs every task that can run
SpecLong ==
    /\ Init
    /\ [][NextLong]_vars
    /\ WF_vars(ListenerReceive)
    /\ \A w \in LaWorkers : WF_vars(WorkerReceive(w))
    /\ \A w \in LaWorkers : WF_vars(\E ok \in BOOLEAN : WorkerFinish(w, ok))

SpecCtx == Init /\ [][NextCtx]_vars

SpecDup == Init /\ [][NextDup]_vars

SpecTimeout == Init /\ [][NextTimeout]_vars

SpecSeg == Init /\ [][NextSeg]_vars

SpecRM == Init /\ [][NextRM]_vars

SpecDedup == InitDedup /\ [][NextDedup]_vars

SpecSpk == Init /\ [][NextSpk]_vars
SpecVoices == Init /\ [][NextVoices]_vars

SpecCmd == Init /\ [][NextCmd]_vars

SpecOrg == Init /\ [][NextOrg]_vars

SpecBuf == Init /\ [][NextBuf]_vars

SpecCap == Init /\ [][NextCap]_vars

SpecWork == Init /\ [][NextWork]_vars

\* every thread keeps being scheduled, an engine call returns, time passes
SpecWorkFair ==
    /\ Init
    /\ [][NextSession]_vars
    /\ \A w \in Workers : WF_vars(WorkerStep(w))
    /\ WF_vars(MainStep)
    /\ WF_vars(StatsStep)
    /\ WF_vars(Age)

====
